---- MODULE Spec2Model ----
(***************************************************************************)
(* Capture side of kimi_cli.e2e_timewalker: AnsiStreamRecorder,            *)
(* KeyframeRegistry, OutputBuffer, OutputPump, ScriptDriver and            *)
(* PtySessionRunner, modelled as a state machine of the driver thread, the  *)
(* pump thread and the child process.                                       *)
(*                                                                         *)
(* Bytes are integers 0..255, byte strings are sequences of bytes, decoded  *)
(* text is a sequence of code points.                                       *)
(***************************************************************************)
EXTENDS Integers, Sequences, FiniteSets, TLC

\* ---------------------------------------------------------------- bounds
\* calls each thread of the recorder harness may issue
MaxOps == 2
\* chunks the child may write to its terminal during one run
MaxOut == 2
\* length of the byte strings handed to PrivateSequenceHandler.normalize
MaxLen == 6
\* number of screen states, and of keyframes, handed to extract_keyframes
MaxFrames == 2

\* ------------------------------------------------------------ byte values
\* script.py:249: the newline byte of b"\n"
LF == 10

None == "None"

\* threads that may call into the recorder and the registry
Threads == {"driver", "pump"}

\* chunks a caller may hand to AnsiStreamRecorder.append in the harness: none,
\* "a", and U+00E9 encoded in UTF-8 (0xC3 0xA9)
RecChunks == {<<>>, <<97>>, <<195, 169>>}

Labels == {"m1", "m2"}

\* chunks the child may write to the slave side
ChildChunks == {<<97>>, <<195, 169>>}

\* script.py:257: timeout of an expectation without an explicit value
DefaultExpectTimeout == 5

VARIABLES
    mode,        \* "rec": API harness over recorder and registry, "run": ScriptDriver.run
    file,        \* AnsiStreamRecorder._file: bytes written so far
    offset,      \* AnsiStreamRecorder._offset
    rlock,       \* AnsiStreamRecorder._lock: holder or None
    closed,      \* AnsiStreamRecorder._file.closed
    records,     \* KeyframeRegistry._records
    klock,       \* KeyframeRegistry._lock: holder or None
    json,        \* keyframes.json: whether it was written, and the frames in it
    call,        \* per thread: the recorder/registry call in progress
    ops,         \* per thread: calls issued so far (harness)
    log,         \* history: the chunks appended, concatenated in the order they took effect
    script,      \* ScriptConfig.steps
    dpc,         \* driver thread: position in ScriptDriver.run
    stepIdx,     \* driver thread: index of the current step
    exc,         \* driver thread: the error being propagated, or None
    exit_info,   \* run's exit_info: [p |-> FALSE] until session.wait returned
    artifacts,   \* keyframes of the returned SessionArtifacts
    cleanup,     \* history: the clean-up calls made so far, in order
    buffer,      \* OutputBuffer._buffer
    expired,     \* wait_until: the deadline has passed
    wuRet,       \* wait_until: the value returned
    pSeen,       \* history: the predicate held at a moment of the current wait
    ppc,         \* pump thread: position in OutputPump.run
    stop_event,  \* OutputPump._stop_event
    master_fd,   \* PtySessionRunner._master_fd is set (open and registered)
    process,     \* PtySessionRunner._process is set
    size,        \* PtySessionRunner._size
    winsize,     \* window size the kernel holds for the PTY
    child,       \* the child process: "none", "running", "exited"
    termSent,    \* SIGTERM is pending for the child
    ptyOut,      \* bytes written to the slave and not yet read from the master
    ptyIn,       \* bytes the driver wrote to the master
    emitted,     \* history: number of chunks the child wrote
    childOut,    \* history: all bytes the child wrote
    parser,      \* AnsiReplayParser: capabilities of its handler, _bytes_consumed, collector entries
    parse,       \* the parse call in progress: file, chunk size, position, states, text fed
    results,     \* the ReplayResults returned so far
    app,         \* a function of the package applied to an argument: f, arg, out, done
    api          \* a PtySessionRunner used directly: its state, _slave_fd, the last call

recVars == <<file, offset, rlock, closed, log>>
regVars == <<records, klock, json>>
drvVars == <<script, dpc, stepIdx, exc, exit_info, artifacts, cleanup>>
bufVars == <<buffer, expired, wuRet, pSeen>>
pumpVars == <<ppc, stop_event>>
ptyVars == <<master_fd, process, size, winsize, child, termSent, ptyOut, ptyIn,
             emitted, childOut>>
runVars == <<drvVars, bufVars, pumpVars, ptyVars>>
replayVars == <<parser, parse, results>>
extVars == <<replayVars, app, api>>
vars == <<mode, recVars, regVars, call, ops, runVars, extVars>>

\* ---------------------------------------------------------------- helpers
IsPrefix(s, t) == Len(s) <= Len(t) /\ SubSeq(t, 1, Len(s)) = s

Range(s) == {s[i] : i \in 1..Len(s)}

\* a call record; floor, start, seen, quiet and total are history fields
IdleCall ==
    [op |-> "none", pc |-> "idle", chunk |-> <<>>, label |-> "", ret |-> 0,
     raised |-> FALSE, floor |-> 0, start |-> 0, seen |-> {}, quiet |-> FALSE,
     total |-> 0]

MaxOf(S) == IF S = {} THEN 0 ELSE CHOOSE m \in S : \A x \in S : x <= m

\* ------------------------------------------------- AnsiStreamRecorder.append
AppendEnterUnchecked(t, chunk) ==
    /\ call[t].pc = "idle"
    /\ call' = [call EXCEPT ![t] =
          [IdleCall EXCEPT !.op = "append", !.chunk = chunk, !.pc = "acquire",
               !.floor = MaxOf({records[i].offset : i \in 1..Len(records)})]]

\* recording.py:36-38: entry; an empty chunk returns _offset without the lock
AppendEnter(t, chunk) ==
    /\ call[t].pc = "idle"
    /\ call' = [call EXCEPT ![t] =
          [IdleCall EXCEPT !.op = "append", !.chunk = chunk,
               !.pc = IF chunk = <<>> THEN "ret" ELSE "acquire",
               !.ret = IF chunk = <<>> THEN offset ELSE 0,
               !.floor = MaxOf({records[i].offset : i \in 1..Len(records)})]]

\* recording.py:40-41: take the lock and self._file.write(chunk); a closed
\* file raises ValueError and the with statement releases the lock
AppendWrite(t) ==
    /\ call[t].op = "append" /\ call[t].pc = "acquire"
    /\ rlock = None
    /\ IF closed
          THEN /\ call' = [call EXCEPT ![t].pc = "ret", ![t].raised = TRUE]
               /\ UNCHANGED <<file, offset, rlock, closed, log>>
          ELSE /\ file' = file \o call[t].chunk
               /\ rlock' = t
               /\ call' = [call EXCEPT ![t].pc = "add", ![t].start = Len(file)]
               /\ UNCHANGED <<offset, closed, log>>

NewOffsetLost(old, chunk) == Len(chunk)

\* recording.py:42: self._offset += len(chunk)
NewOffset(old, chunk) == old + Len(chunk)

\* recording.py:42-43: update the offset, return it, release the lock
AppendAdd(t) ==
    /\ call[t].op = "append" /\ call[t].pc = "add"
    /\ offset' = NewOffset(offset, call[t].chunk)
    /\ log' = log \o call[t].chunk
    /\ rlock' = None
    /\ call' = [u \in Threads |->
          IF u = t THEN [call[t] EXCEPT !.pc = "ret", !.ret = offset']
          ELSE IF call[u].op = "mark" /\ call[u].pc \in {"read", "store"}
               THEN [call[u] EXCEPT !.seen = @ \cup {offset'}]
               ELSE call[u]]
    /\ UNCHANGED <<file, closed>>

\* ---------------------------------------------------- AnsiStreamRecorder.close
\* recording.py:45-50: under the lock, return if the file is already closed,
\* else flush and close it
RecorderClose(t) ==
    /\ rlock = None
    /\ IF closed
          THEN UNCHANGED <<file, offset, rlock, closed, log>>
          ELSE /\ closed' = TRUE
               /\ UNCHANGED <<file, offset, rlock, log>>

\* ------------------------------------------------------ KeyframeRegistry.mark
\* recording.py:73-74: entry, with self._lock
MarkEnter(t, label) ==
    /\ call[t].pc = "idle"
    /\ klock = None
    /\ klock' = t
    /\ call' = [call EXCEPT ![t] =
          [IdleCall EXCEPT !.op = "mark", !.label = label, !.pc = "read",
                           !.seen = {offset}]]
    /\ UNCHANGED <<records, json>>

MarkOffsetFileLen == Len(file)

\* recording.py:75: self._recorder.offset, read without the recorder's lock
MarkOffset == offset

\* recording.py:75: build the frame
MarkRead(t) ==
    /\ call[t].op = "mark" /\ call[t].pc = "read"
    /\ call' = [call EXCEPT ![t].pc = "store", ![t].ret = MarkOffset,
                            ![t].quiet = (rlock = None),
                            ![t].total = Len(log)]
    /\ UNCHANGED regVars

\* recording.py:76-77: append the frame, return it, release the lock
MarkStore(t) ==
    /\ call[t].op = "mark" /\ call[t].pc = "store"
    /\ records' = Append(records, [label |-> call[t].label, offset |-> call[t].ret])
    /\ klock' = None
    /\ call' = [call EXCEPT ![t].pc = "ret"]
    /\ UNCHANGED json

\* ----------------------------------------------------- KeyframeRegistry.flush
RegistryFlushSkipped(t) ==
    /\ klock = None
    /\ UNCHANGED <<records, klock, json>>

\* recording.py:83-86: write the whole list under the lock
RegistryFlush(t) ==
    /\ klock = None
    /\ json' = [written |-> TRUE, frames |-> records]
    /\ UNCHANGED <<records, klock>>

\* ------------------------------------------------------------- API harness
\* a caller issues append (recording.py:36)
RecAppend(t) ==
    /\ mode = "rec" /\ ops[t] < MaxOps
    /\ \E c \in RecChunks : AppendEnter(t, c)
    /\ ops' = [ops EXCEPT ![t] = @ + 1]
    /\ UNCHANGED <<mode, extVars, recVars, regVars, runVars>>

\* a caller issues mark (recording.py:73)
RecMark(t) ==
    /\ mode = "rec" /\ ops[t] < MaxOps
    /\ \E l \in Labels : MarkEnter(t, l)
    /\ ops' = [ops EXCEPT ![t] = @ + 1]
    /\ UNCHANGED <<mode, extVars, recVars, runVars>>

\* a caller issues close (recording.py:45); quiet records that the file was
\* closed already
RecClose(t) ==
    /\ mode = "rec" /\ ops[t] < MaxOps
    /\ call[t].pc = "idle"
    /\ RecorderClose(t)
    /\ call' = [call EXCEPT ![t] =
          [IdleCall EXCEPT !.op = "close", !.pc = "ret", !.quiet = closed]]
    /\ ops' = [ops EXCEPT ![t] = @ + 1]
    /\ UNCHANGED <<mode, extVars, regVars, runVars>>

\* a caller issues flush (recording.py:83)
RecFlush(t) ==
    /\ mode = "rec" /\ ops[t] < MaxOps
    /\ call[t].pc = "idle"
    /\ RegistryFlush(t)
    /\ ops' = [ops EXCEPT ![t] = @ + 1]
    /\ UNCHANGED <<mode, extVars, recVars, call, runVars>>

\* the steps of a call in progress
RecStepWrite(t) == mode = "rec" /\ AppendWrite(t) /\ UNCHANGED <<mode, extVars, regVars, ops,
                   runVars>>
RecStepAdd(t) == mode = "rec" /\ AppendAdd(t) /\ UNCHANGED <<mode, extVars, regVars,
                 ops, runVars>>
RecStepRead(t) == mode = "rec" /\ MarkRead(t) /\ UNCHANGED <<mode, extVars, recVars,
                  ops, runVars>>
RecStepStore(t) == mode = "rec" /\ MarkStore(t) /\ UNCHANGED <<mode, extVars, recVars,
                   ops, runVars>>

\* the caller takes the returned value (or the raised error)
RecReturn(t) ==
    /\ mode = "rec"
    /\ call[t].pc = "ret"
    /\ call' = [call EXCEPT ![t] = IdleCall]
    /\ UNCHANGED <<mode, extVars, recVars, regVars, ops, runVars>>


\* ------------------------------------------------------------------- text
\* bytes.decode("utf-8", errors="ignore") for byte values below 0xE0: ASCII,
\* two-byte sequences, and every byte that starts no valid sequence dropped
RECURSIVE Decode(_)
Decode(bs) ==
    IF bs = <<>> THEN <<>>
    ELSE IF bs[1] < 128 THEN <<bs[1]>> \o Decode(Tail(bs))
    ELSE IF bs[1] \in 194..223 /\ Len(bs) >= 2 /\ bs[2] \in 128..191
         THEN <<(bs[1] - 192) * 64 + (bs[2] - 128)>> \o Decode(SubSeq(bs, 3, Len(bs)))
    ELSE Decode(Tail(bs))

\* str.encode() for code points below 0x800
RECURSIVE Encode(_)
Encode(text) ==
    IF text = <<>> THEN <<>>
    ELSE IF text[1] < 128 THEN <<text[1]>> \o Encode(Tail(text))
    ELSE <<192 + (text[1] \div 64), 128 + (text[1] % 64)>> \o Encode(Tail(text))

\* pat in text
Contains(text, pat) ==
    \E i \in 1..(Len(text) - Len(pat) + 1) : SubSeq(text, i, i + Len(pat) - 1) = pat

EndsWith(text, pat) ==
    Len(pat) <= Len(text) /\ SubSeq(text, Len(text) - Len(pat) + 1, Len(text)) = pat

\* a value that may be None
Some(v) == [p |-> TRUE, v |-> v]
NoText == [p |-> FALSE, v |-> <<>>]
NoNumber == [p |-> FALSE, v |-> 0]

\* regular expressions are a literal with an optional trailing "$"
Regex(lit, end) == [lit |-> lit, end |-> end]
NoRegex == [p |-> FALSE, v |-> Regex(<<>>, FALSE)]
NoPredicate == [p |-> FALSE, v |-> ""]

\* re.search(regex, text): "$" matches at the end and before a final newline
RegexSearch(r, text) ==
    IF r.end
    THEN EndsWith(text, r.lit) \/ EndsWith(text, r.lit \o <<LF>>)
    ELSE r.lit = <<>> \/ Contains(text, r.lit)

\* the callables a condition may carry
PredicateHolds(name, text) ==
    CASE name = "nonempty" -> text # <<>>
      [] name = "single" -> Len(text) = 1
      [] OTHER -> FALSE

\* script.py:51-55: OutputCondition
OutputCondition(contains, regex, predicate) ==
    [contains |-> contains, regex |-> regex, predicate |-> predicate]

\* script.py:64-71: OutputCondition.matches; a field that is None or empty
\* is skipped
Matches(cond, text) ==
    \/ cond.contains.p /\ cond.contains.v # <<>> /\ Contains(text, cond.contains.v)
    \/ cond.regex.p /\ (cond.regex.v.lit # <<>> \/ cond.regex.v.end)
           /\ RegexSearch(cond.regex.v, text)
    \/ cond.predicate.p /\ PredicateHolds(cond.predicate.v, text)

\* ------------------------------------------------------------------ steps
\* pty_runner.py:16-21: PtySize
PtySize(rows, cols) == [rows |-> rows, cols |-> cols]
DefaultSize == PtySize(24, 80)

AnyCond == OutputCondition(Some(<<97>>), NoRegex, NoPredicate)
NoExpect == [p |-> FALSE, v |-> AnyCond]

\* script.py:84-91: InputStep
InputStep(payload, mark, expect, expect_timeout, send_newline) ==
    [kind |-> "input", payload |-> payload, mark |-> mark, expect |-> expect,
     expect_timeout |-> expect_timeout, send_newline |-> send_newline, delay |-> 0,
     condition |-> AnyCond, timeout |-> 0, label |-> "", size |-> DefaultSize]

\* script.py:94-97: WaitStep
WaitStep(condition, timeout) ==
    [kind |-> "wait", payload |-> <<>>, mark |-> [p |-> FALSE, v |-> ""],
     expect |-> NoExpect, expect_timeout |-> NoNumber, send_newline |-> FALSE, delay |-> 0,
     condition |-> condition, timeout |-> timeout, label |-> "", size |-> DefaultSize]

\* script.py:100-102: MarkStep
MarkStep(label) ==
    [kind |-> "mark", payload |-> <<>>, mark |-> [p |-> FALSE, v |-> ""],
     expect |-> NoExpect, expect_timeout |-> NoNumber, send_newline |-> FALSE, delay |-> 0,
     condition |-> AnyCond, timeout |-> 0, label |-> label, size |-> DefaultSize]

\* script.py:105-107: ResizeStep
ResizeStep(sz) ==
    [kind |-> "resize", payload |-> <<>>, mark |-> [p |-> FALSE, v |-> ""],
     expect |-> NoExpect, expect_timeout |-> NoNumber, send_newline |-> FALSE, delay |-> 0,
     condition |-> AnyCond, timeout |-> 0, label |-> "", size |-> sz]

NoMark == [p |-> FALSE, v |-> ""]

ContainsA == OutputCondition(Some(<<97>>), NoRegex, NoPredicate)
ContainsE9 == OutputCondition(Some(<<233>>), NoRegex, NoPredicate)
EndsInA == OutputCondition(NoText, [p |-> TRUE, v |-> Regex(<<97>>, TRUE)], NoPredicate)

\* the step lists a run is given
Scripts ==
    { <<InputStep(<<120>>, Some("m1"), Some(ContainsA), NoNumber, TRUE), MarkStep("m2")>>,
      <<WaitStep(EndsInA, 1), ResizeStep(PtySize(30, 120))>>,
      <<WaitStep(ContainsE9, 0), InputStep(<<101, LF>>, NoMark, NoExpect, NoNumber, TRUE)>>,
      <<MarkStep("m1"), InputStep(<<101>>, Some("m2"), Some(EndsInA), Some(0), FALSE)>>,
      <<InputStep(<<>>, Some(""), Some(ContainsA), Some(0), FALSE)>> }

\* replay.py:42-45: TerminalCapabilities
TerminalCapabilities(supports_dec_private, allow_osc) ==
    [supports_dec_private |-> supports_dec_private, allow_osc |-> allow_osc]
DefaultCapabilities == TerminalCapabilities(FALSE, FALSE)

\* replay.py:137-147: a parser as AnsiReplayParser.__init__ leaves it
NewParser(caps) == [capabilities |-> caps, bytes_consumed |-> 0, entries |-> <<>>]

NoParse ==
    [pc |-> "idle", data |-> <<>>, chunk_size |-> 0, pos |-> 0, states |-> <<>>,
     fed |-> <<>>]

NoApp == [f |-> "none", arg |-> <<>>, out |-> <<>>, done |-> FALSE]

\* runner: "none", "new" (constructed), "open" (entered), "failed" (__enter__
\* raised) or "released" (left); slave_fd: _slave_fd is set and open; arg: the
\* size the last resize was given
NoApi ==
    [runner |-> "none", op |-> "none", error |-> None, io |-> FALSE,
     slave_fd |-> FALSE, arg |-> DefaultSize]

\* values of the replay, function and session-call variables while unused
ExtIdle ==
    /\ parser = NewParser(DefaultCapabilities) /\ parse = NoParse /\ results = <<>>
    /\ app = NoApp
    /\ api = NoApi

\* values of the run's variables while no run is in progress
RunIdle ==
    /\ script = <<>> /\ dpc = "idle" /\ stepIdx = 0 /\ exc = None
    /\ exit_info = [p |-> FALSE, returncode |-> NoNumber, signal |-> NoNumber]
    /\ artifacts = [p |-> FALSE, keyframes |-> <<>>]
    /\ cleanup = <<>>
    /\ buffer = <<>> /\ expired = FALSE /\ wuRet = FALSE /\ pSeen = FALSE
    /\ ppc = "idle" /\ stop_event = FALSE
    /\ master_fd = FALSE /\ process = FALSE /\ size = DefaultSize
    /\ winsize = DefaultSize
    /\ child = "none" /\ termSent = FALSE
    /\ ptyOut = <<>> /\ ptyIn = <<>> /\ emitted = 0 /\ childOut = <<>>

\* ------------------------------------------------------------ ScriptDriver
\* what no step of a run changes
hv == <<mode, ops, extVars>>

CurStep == script[stepIdx]

\* the condition the driver is waiting on
CurCond == IF CurStep.kind = "input" THEN CurStep.expect.v ELSE CurStep.condition

\* script.py:257 and script.py:268: the timeout handed to wait_until
CurTimeout ==
    IF CurStep.kind = "input"
    THEN IF CurStep.expect_timeout.p THEN CurStep.expect_timeout.v ELSE DefaultExpectTimeout
    ELSE CurStep.timeout

\* script.py:225: the for loop takes the next step, or the loop ends
Advance ==
    /\ stepIdx' = stepIdx + 1
    /\ dpc' = IF stepIdx < Len(script) THEN "step" ELSE "wait_child"

RaiseSwallowed(e) == Advance /\ UNCHANGED exc

\* an error leaves the try block: control passes to the finally clause
Raise(e) == exc' = e /\ dpc' = "stop" /\ UNCHANGED stepIdx

\* pty_runner.py:63-86: PtySessionRunner.__enter__
SessionEnter ==
    /\ mode = "run" /\ dpc = "init"
    /\ master_fd' = TRUE /\ process' = TRUE /\ child' = "running"
    /\ winsize' = size
    /\ dpc' = "entered"
    /\ UNCHANGED <<hv, recVars, regVars, call, script, stepIdx, exc, exit_info,
                   artifacts, cleanup,
                   bufVars, pumpVars, size, termSent, ptyOut, ptyIn, emitted, childOut>>

\* script.py:195-198: recorder and registry are built, the pump is started
PumpStart ==
    /\ mode = "run" /\ dpc = "entered"
    /\ ppc' = "loop"
    /\ dpc' = IF script = <<>> THEN "wait_child" ELSE "step"
    /\ stepIdx' = 1
    /\ UNCHANGED <<hv, recVars, regVars, call, script, exc, exit_info, artifacts, cleanup,
                   bufVars, stop_event, ptyVars>>

InputBytesAlways(step) == Encode(step.payload) \o <<LF>>

\* script.py:248-250: the bytes offered to the PTY
InputBytes(step) ==
    LET payload == Encode(step.payload)
    IN  IF step.send_newline /\ ~EndsWith(payload, <<LF>>)
        THEN payload \o <<LF>> ELSE payload

\* where an input step goes after the write
AfterWrite ==
    IF CurStep.mark.p /\ CurStep.mark.v # ""
    THEN dpc' = "in_mark" /\ UNCHANGED stepIdx
    ELSE IF CurStep.expect.p
         THEN dpc' = "in_expect" /\ UNCHANGED stepIdx
         ELSE Advance

\* script.py:245-251, pty_runner.py:136-139: os.write accepts a prefix of the
\* bytes offered; its result is not looked at
InputWrite ==
    /\ mode = "run" /\ dpc = "step" /\ CurStep.kind = "input"
    /\ LET data == InputBytes(CurStep)
       IN  \E n \in (IF data = <<>> THEN {0} ELSE 1..Len(data)) :
              ptyIn' = ptyIn \o SubSeq(data, 1, n)
    /\ AfterWrite
    /\ UNCHANGED <<hv, recVars, regVars, call, script, exc, exit_info, artifacts, cleanup,
                   bufVars, pumpVars, master_fd, process, size, winsize, child,
                   termSent, ptyOut, emitted, childOut>>

\* pty_runner.py:139: os.write fails
InputWriteError ==
    /\ mode = "run" /\ dpc = "step" /\ CurStep.kind = "input"
    /\ Raise("OSError")
    /\ UNCHANGED <<hv, recVars, regVars, call, script, exit_info, artifacts, cleanup,
                   bufVars, pumpVars, ptyVars>>

\* script.py:253-254: registry.mark(step.mark)
InputMark ==
    /\ mode = "run" /\ dpc = "in_mark"
    /\ MarkEnter("driver", CurStep.mark.v)
    /\ dpc' = "marking"
    /\ UNCHANGED <<hv, recVars, script, stepIdx, exc, exit_info, artifacts, cleanup,
                   bufVars, pumpVars, ptyVars>>

\* script.py:230-231: registry.mark(step.label)
StepMark ==
    /\ mode = "run" /\ dpc = "step" /\ CurStep.kind = "mark"
    /\ MarkEnter("driver", CurStep.label)
    /\ dpc' = "marking"
    /\ UNCHANGED <<hv, recVars, script, stepIdx, exc, exit_info, artifacts, cleanup,
                   bufVars, pumpVars, ptyVars>>

DriverMarkRead ==
    /\ mode = "run" /\ dpc = "marking"
    /\ MarkRead("driver")
    /\ UNCHANGED <<hv, recVars, runVars>>

DriverMarkStore ==
    /\ mode = "run" /\ dpc = "marking"
    /\ MarkStore("driver")
    /\ UNCHANGED <<hv, recVars, runVars>>

\* mark has returned: script.py:256 for an input step, the next step otherwise
MarkReturn ==
    /\ mode = "run" /\ dpc = "marking" /\ call["driver"].pc = "ret"
    /\ call' = [call EXCEPT !["driver"] = IdleCall]
    /\ IF CurStep.kind = "input" /\ CurStep.expect.p
          THEN dpc' = "in_expect" /\ UNCHANGED stepIdx
          ELSE Advance
    /\ UNCHANGED <<hv, recVars, regVars, script, exc, exit_info, artifacts, cleanup,
                   bufVars, pumpVars, ptyVars>>

\* ------------------------------------------------- OutputBuffer.wait_until
\* script.py:33: deadline = time.monotonic() + timeout, taken by the expect of
\* an input step (script.py:258) or by a wait step (script.py:268)
WaitBegin ==
    /\ mode = "run"
    /\ dpc = "in_expect" \/ (dpc = "step" /\ CurStep.kind = "wait")
    /\ expired' = (CurTimeout <= 0)
    /\ pSeen' = Matches(CurCond, Decode(buffer))
    /\ dpc' = "wu_check"
    /\ UNCHANGED <<hv, recVars, regVars, call, script, stepIdx, exc, exit_info,
                   artifacts, cleanup,
                   buffer, wuRet, pumpVars, ptyVars>>

WaitDecisionDeadlineFirst(matched, gone) ==
    IF gone THEN "false" ELSE IF matched THEN "true" ELSE "wait"

WaitDecisionTimeoutTrue(matched, gone) ==
    IF matched \/ gone THEN "true" ELSE "wait"

\* script.py:36-41: one turn of the loop, under the condition's lock
WaitDecision(matched, gone) ==
    IF matched THEN "true" ELSE IF gone THEN "false" ELSE "wait"

\* script.py:35-41: evaluate the predicate on the decoded buffer, then the
\* deadline; Condition.wait releases the lock
WaitCheck ==
    /\ mode = "run" /\ dpc = "wu_check"
    /\ LET d == WaitDecision(Matches(CurCond, Decode(buffer)), expired)
       IN  /\ dpc' = IF d = "wait" THEN "wu_wait" ELSE "wu_ret"
           /\ wuRet' = (d = "true")
    /\ UNCHANGED <<hv, recVars, regVars, call, script, stepIdx, exc, exit_info,
                   artifacts, cleanup,
                   buffer, expired, pSeen, pumpVars, ptyVars>>

\* script.py:41: Condition.wait returns: notified, timed out or spuriously
WaitWake ==
    /\ mode = "run" /\ dpc = "wu_wait"
    /\ dpc' = "wu_check"
    /\ UNCHANGED <<hv, recVars, regVars, call, script, stepIdx, exc, exit_info,
                   artifacts, cleanup,
                   bufVars, pumpVars, ptyVars>>

\* time passes the deadline of the wait in progress
DeadlinePasses ==
    /\ mode = "run" /\ dpc \in {"wu_check", "wu_wait"} /\ ~expired
    /\ expired' = TRUE
    /\ UNCHANGED <<hv, recVars, regVars, call, drvVars, buffer, wuRet, pSeen,
                   pumpVars, ptyVars>>

\* script.py:259-265 and 269-275: a false result raises TimeoutError
WaitReturn ==
    /\ mode = "run" /\ dpc = "wu_ret"
    /\ IF wuRet THEN Advance /\ UNCHANGED exc ELSE Raise("TimeoutError")
    /\ UNCHANGED <<hv, recVars, regVars, call, script, exit_info, artifacts, cleanup,
                   bufVars, pumpVars, ptyVars>>

\* ------------------------------------------------------------ other steps
\* script.py:232-233, pty_runner.py:168-182: resize stores the size, then the
\* ioctl applies it
StepResize ==
    /\ mode = "run" /\ dpc = "step" /\ CurStep.kind = "resize"
    /\ size' = CurStep.size
    /\ winsize' = CurStep.size
    /\ Advance
    /\ UNCHANGED <<hv, recVars, regVars, call, script, exc, exit_info, artifacts, cleanup,
                   bufVars, pumpVars, master_fd, process, child, termSent,
                   ptyOut, ptyIn, emitted, childOut>>

\* pty_runner.py:180: the ioctl fails
StepResizeError ==
    /\ mode = "run" /\ dpc = "step" /\ CurStep.kind = "resize"
    /\ size' = CurStep.size
    /\ Raise("OSError")
    /\ UNCHANGED <<hv, recVars, regVars, call, script, exit_info, artifacts, cleanup,
                   bufVars, pumpVars, master_fd, process, winsize, child, termSent,
                   ptyOut, ptyIn, emitted, childOut>>

\* return codes of a child that ended by itself or by a signal
ExitCodes == {0, 1, -2}

\* pty_runner.py:150-155: the exit status of a return code
ExitStatusBoth(code) ==
    [p |-> TRUE, returncode |-> Some(code),
     signal |-> IF code < 0 THEN Some(-code) ELSE NoNumber]

ExitStatus(code) ==
    IF code < 0
    THEN [p |-> TRUE, returncode |-> NoNumber, signal |-> Some(-code)]
    ELSE [p |-> TRUE, returncode |-> Some(code), signal |-> NoNumber]

\* pty_runner.py:31-33: PtyExitStatus.succeeded
Succeeded(status) ==
    status.returncode.p /\ status.returncode.v = 0 /\ ~status.signal.p

\* script.py:211-213: the exit status and signal of the SessionArtifacts
SessionArtifacts(status) ==
    [exit_status |-> status.returncode, signal |-> status.signal]

\* script.py:202, pty_runner.py:141-155: session.wait returns with the return
\* code the child ended with
WaitChildReturn ==
    /\ mode = "run" /\ dpc = "wait_child" /\ child = "exited"
    /\ \E code \in ExitCodes : exit_info' = ExitStatus(code)
    /\ dpc' = "stop"
    /\ UNCHANGED <<hv, recVars, regVars, call, script, stepIdx, exc, artifacts, cleanup,
                   bufVars, pumpVars, ptyVars>>

\* pty_runner.py:147-148: the child did not exit within config.timeout
WaitChildTimeout ==
    /\ mode = "run" /\ dpc = "wait_child" /\ child = "running"
    /\ Raise("TimeoutError")
    /\ UNCHANGED <<hv, recVars, regVars, call, script, exit_info, artifacts, cleanup,
                   bufVars, pumpVars, ptyVars>>

\* ------------------------------------------------------ the finally clause
PumpStopSkipped ==
    /\ mode = "run" /\ dpc = "stop"
    /\ dpc' = "join"
    /\ UNCHANGED <<hv, recVars, regVars, call, script, stepIdx, exc, exit_info, artifacts,
                   cleanup, bufVars, pumpVars, ptyVars>>

\* script.py:204: pump.stop()
PumpStop ==
    /\ mode = "run" /\ dpc = "stop"
    /\ stop_event' = TRUE
    /\ dpc' = "join"
    /\ cleanup' = Append(cleanup, "stop")
    /\ UNCHANGED <<hv, recVars, regVars, call, script, stepIdx, exc, exit_info, artifacts,
                   bufVars, ppc, ptyVars>>

PumpEnded == ppc \in {"done", "dead"}

\* script.py:205: pump.join(timeout=2) returns because the thread has ended
JoinReturn ==
    /\ mode = "run" /\ dpc = "join" /\ PumpEnded
    /\ dpc' = "flush"
    /\ cleanup' = Append(cleanup, "join")
    /\ UNCHANGED <<hv, recVars, regVars, call, script, stepIdx, exc, exit_info, artifacts,
                   bufVars, pumpVars, ptyVars>>

\* script.py:205: pump.join(timeout=2) returns because the two seconds are over
JoinTimeout ==
    /\ mode = "run" /\ dpc = "join" /\ ~PumpEnded
    /\ dpc' = "flush"
    /\ cleanup' = Append(cleanup, "join")
    /\ UNCHANGED <<hv, recVars, regVars, call, script, stepIdx, exc, exit_info, artifacts,
                   bufVars, pumpVars, ptyVars>>

\* script.py:206: registry.flush()
FlushRegistry ==
    /\ mode = "run" /\ dpc = "flush"
    /\ RegistryFlush("driver")
    /\ dpc' = "rec_close"
    /\ cleanup' = Append(cleanup, "flush")
    /\ UNCHANGED <<hv, recVars, call, script, stepIdx, exc, exit_info, artifacts,
                   bufVars, pumpVars, ptyVars>>

\* script.py:195, recording.py:55-56: the with statement leaves the recorder
RecorderExit ==
    /\ mode = "run" /\ dpc = "rec_close"
    /\ RecorderClose("driver")
    /\ dpc' = "sx"
    /\ cleanup' = Append(cleanup, "close")
    /\ UNCHANGED <<hv, regVars, call, script, stepIdx, exc, exit_info, artifacts,
                   bufVars, pumpVars, ptyVars>>

\* pty_runner.py:90-91: a child still running is sent SIGTERM
SessionExitTerminate ==
    /\ mode = "run" /\ dpc = "sx"
    /\ IF child = "running"
          THEN termSent' = TRUE /\ dpc' = "sx_wait"
          ELSE UNCHANGED termSent /\ dpc' = "sx_fin"
    /\ UNCHANGED <<hv, recVars, regVars, call, script, stepIdx, exc, exit_info,
                   artifacts, cleanup,
                   bufVars, pumpVars, master_fd, process, size, winsize, child,
                   ptyOut, ptyIn, emitted, childOut>>

\* pty_runner.py:92-93: the child exited within the second
SessionExitWait ==
    /\ mode = "run" /\ dpc = "sx_wait" /\ child = "exited"
    /\ dpc' = "sx_fin"
    /\ UNCHANGED <<hv, recVars, regVars, call, script, stepIdx, exc, exit_info,
                   artifacts, cleanup,
                   bufVars, pumpVars, ptyVars>>

SessionExitNoKill ==
    /\ mode = "run" /\ dpc = "sx_wait" /\ child = "running"
    /\ dpc' = "sx_fin"
    /\ UNCHANGED <<hv, recVars, regVars, call, script, stepIdx, exc, exit_info,
                   artifacts, cleanup, bufVars, pumpVars, ptyVars>>

\* pty_runner.py:94-95: it did not: SIGKILL
SessionExitKill ==
    /\ mode = "run" /\ dpc = "sx_wait" /\ child = "running"
    /\ child' = "exited"
    /\ dpc' = "sx_fin"
    /\ UNCHANGED <<hv, recVars, regVars, call, script, stepIdx, exc, exit_info,
                   artifacts, cleanup,
                   bufVars, pumpVars, master_fd, process, size, winsize, termSent,
                   ptyOut, ptyIn, emitted, childOut>>

\* pty_runner.py:96-110: reap the child, unregister and close the master,
\* forget fds and process; then script.py:208-216: return, or the error goes on
SessionExitFinally ==
    /\ mode = "run" /\ dpc = "sx_fin"
    /\ master_fd' = FALSE /\ process' = FALSE
    /\ dpc' = IF exc = None THEN "returned" ELSE "raised"
    /\ artifacts' = IF exc = None THEN [p |-> TRUE, keyframes |-> records] ELSE artifacts
    /\ cleanup' = Append(cleanup, "release")
    /\ UNCHANGED <<hv, recVars, regVars, call, script, stepIdx, exc, exit_info,
                   bufVars, pumpVars, size, winsize, child, termSent,
                   ptyOut, ptyIn, emitted, childOut>>

\* --------------------------------------------------------------- OutputPump
\* script.py:151: while not self._stop_event.is_set()
PumpLoop ==
    /\ mode = "run" /\ ppc = "loop"
    /\ ppc' = IF stop_event THEN "drain" ELSE "read"
    /\ UNCHANGED <<hv, recVars, regVars, call, drvVars, bufVars, stop_event, ptyVars>>

\* script.py:153 and 167, pty_runner.py:126-134: read returns a non-empty
\* chunk, which goes to recorder.append (script.py:162 and 172)
PumpReadData ==
    /\ mode = "run" /\ ppc \in {"read", "drain"}
    /\ master_fd /\ ptyOut # <<>>
    /\ \E n \in 1..Len(ptyOut) :
          /\ AppendEnter("pump", SubSeq(ptyOut, 1, n))
          /\ ptyOut' = SubSeq(ptyOut, n + 1, Len(ptyOut))
    /\ ppc' = IF ppc = "read" THEN "rec" ELSE "drec"
    /\ UNCHANGED <<hv, recVars, regVars, drvVars, bufVars, stop_event,
                   master_fd, process, size, winsize, child, termSent, ptyIn,
                   emitted, childOut>>

\* script.py:154-157: the read timed out; is_running decides (it raises once
\* the session has forgotten its process, pty_runner.py:120-124)
PumpReadTimeout ==
    /\ mode = "run" /\ ppc = "read"
    /\ ptyOut = <<>> \/ ~master_fd
    /\ ppc' = IF ~process THEN "dead" ELSE IF child = "running" THEN "loop" ELSE "drain"
    /\ UNCHANGED <<hv, recVars, regVars, call, drvVars, bufVars, stop_event, ptyVars>>

\* script.py:168-169: the drain read timed out
PumpDrainTimeout ==
    /\ mode = "run" /\ ppc = "drain"
    /\ ptyOut = <<>> \/ ~master_fd
    /\ ppc' = "done"
    /\ UNCHANGED <<hv, recVars, regVars, call, drvVars, bufVars, stop_event, ptyVars>>

\* script.py:158-161 and 170-171: a zero-byte read, the slave side being closed
PumpReadEof ==
    /\ mode = "run" /\ ppc \in {"read", "drain"}
    /\ master_fd /\ ptyOut = <<>> /\ child = "exited"
    /\ ppc' = IF ppc = "drain" THEN "done" ELSE IF ~process THEN "dead" ELSE "drain"
    /\ UNCHANGED <<hv, recVars, regVars, call, drvVars, bufVars, stop_event, ptyVars>>

\* pty_runner.py:133: os.read raises (EIO once the slave side is closed, a
\* master fd closed or forgotten by the driver); the thread ends with the error
PumpReadError ==
    /\ mode = "run" /\ ppc \in {"read", "drain"}
    /\ ~master_fd \/ (ptyOut = <<>> /\ child = "exited")
    /\ ppc' = "dead"
    /\ UNCHANGED <<hv, recVars, regVars, call, drvVars, bufVars, stop_event, ptyVars>>

PumpAppendWrite ==
    /\ mode = "run" /\ AppendWrite("pump")
    /\ UNCHANGED <<hv, regVars, runVars>>

PumpAppendAdd ==
    /\ mode = "run" /\ AppendAdd("pump")
    /\ UNCHANGED <<hv, regVars, runVars>>

\* recording.py:41: the write raised; the thread ends with the error
PumpAppendRaised ==
    /\ mode = "run" /\ ppc \in {"rec", "drec"}
    /\ call["pump"].pc = "ret" /\ call["pump"].raised
    /\ call' = [call EXCEPT !["pump"] = IdleCall]
    /\ ppc' = "dead"
    /\ UNCHANGED <<hv, recVars, regVars, drvVars, bufVars, stop_event, ptyVars>>

BufferExtendFront(buf, chunk) == chunk \o buf

\* script.py:25: self._buffer.extend(chunk)
BufferExtend(buf, chunk) == buf \o chunk

\* script.py:163 and 173, script.py:21-26: buffer.append(chunk) extends the
\* buffer and notifies under the condition's lock
PumpBufferAppend ==
    /\ mode = "run" /\ ppc \in {"rec", "drec"}
    /\ call["pump"].pc = "ret" /\ ~call["pump"].raised
    /\ buffer' = BufferExtend(buffer, call["pump"].chunk)
    /\ pSeen' = (pSeen \/ (dpc \in {"wu_check", "wu_wait"} /\ ~expired
                              /\ Matches(CurCond, Decode(buffer'))))
    /\ call' = [call EXCEPT !["pump"] = IdleCall]
    /\ ppc' = IF ppc = "rec" THEN "loop" ELSE "drain"
    /\ UNCHANGED <<hv, recVars, regVars, drvVars, expired, wuRet, stop_event, ptyVars>>

\* ---------------------------------------------------------------- the child
\* the child writes a chunk to its terminal
ChildWrite ==
    /\ mode = "run" /\ child = "running" /\ master_fd
    /\ emitted < MaxOut
    /\ \E c \in ChildChunks :
          /\ ptyOut' = ptyOut \o c
          /\ childOut' = childOut \o c
    /\ emitted' = emitted + 1
    /\ UNCHANGED <<hv, recVars, regVars, call, drvVars, bufVars, pumpVars,
                   master_fd, process, size, winsize, child, termSent, ptyIn>>

\* the child ends
ChildExit ==
    /\ mode = "run" /\ child = "running"
    /\ child' = "exited"
    /\ UNCHANGED <<hv, recVars, regVars, call, drvVars, bufVars, pumpVars,
                   master_fd, process, size, winsize, termSent, ptyOut, ptyIn,
                   emitted, childOut>>

\* the child ends on the SIGTERM of pty_runner.py:91
ChildTerminated ==
    /\ mode = "run" /\ child = "running" /\ termSent
    /\ child' = "exited"
    /\ UNCHANGED <<hv, recVars, regVars, call, drvVars, bufVars, pumpVars,
                   master_fd, process, size, winsize, termSent, ptyOut, ptyIn,
                   emitted, childOut>>

\* state after AnsiStreamRecorder.__init__ and KeyframeRegistry.__init__
ObjInit ==
    /\ file = <<>> /\ offset = 0 /\ rlock = None /\ closed = FALSE
    /\ records = <<>> /\ klock = None /\ json = [written |-> FALSE, frames |-> <<>>]
    /\ call = [t \in Threads |-> IdleCall]
    /\ log = <<>>

RecInit ==
    /\ mode = "rec"
    /\ ObjInit
    /\ ExtIdle
    /\ ops = [t \in Threads |-> 0]
    /\ RunIdle

RecNext ==
    \E t \in Threads :
        \/ RecAppend(t)
        \/ RecMark(t)
        \/ RecClose(t)
        \/ RecFlush(t)
        \/ RecStepWrite(t)
        \/ RecStepAdd(t)
        \/ RecStepRead(t)
        \/ RecStepStore(t)
        \/ RecReturn(t)

RecSpec == RecInit /\ [][RecNext]_vars

\* ScriptDriver.run is called with one of the step lists
Init ==
    /\ mode = "run"
    /\ ObjInit
    /\ ExtIdle
    /\ ops = [t \in Threads |-> 0]
    /\ script \in Scripts
    /\ dpc = "init" /\ stepIdx = 0 /\ exc = None
    /\ exit_info = [p |-> FALSE, returncode |-> NoNumber, signal |-> NoNumber]
    /\ artifacts = [p |-> FALSE, keyframes |-> <<>>]
    /\ cleanup = <<>>
    /\ buffer = <<>> /\ expired = FALSE /\ wuRet = FALSE /\ pSeen = FALSE
    /\ ppc = "idle" /\ stop_event = FALSE
    /\ master_fd = FALSE /\ process = FALSE /\ size = DefaultSize
    /\ winsize = DefaultSize
    /\ child = "none" /\ termSent = FALSE
    /\ ptyOut = <<>> /\ ptyIn = <<>> /\ emitted = 0 /\ childOut = <<>>

Next ==
    \/ SessionEnter
    \/ PumpStart
    \/ InputWrite
    \/ InputWriteError
    \/ InputMark
    \/ StepMark
    \/ DriverMarkRead
    \/ DriverMarkStore
    \/ MarkReturn
    \/ WaitBegin
    \/ WaitCheck
    \/ WaitWake
    \/ DeadlinePasses
    \/ WaitReturn
    \/ StepResize
    \/ StepResizeError
    \/ WaitChildReturn
    \/ WaitChildTimeout
    \/ PumpStop
    \/ JoinReturn
    \/ JoinTimeout
    \/ FlushRegistry
    \/ RecorderExit
    \/ SessionExitTerminate
    \/ SessionExitWait
    \/ SessionExitKill
    \/ SessionExitFinally
    \/ PumpLoop
    \/ PumpReadData
    \/ PumpReadTimeout
    \/ PumpDrainTimeout
    \/ PumpReadEof
    \/ PumpReadError
    \/ PumpAppendWrite
    \/ PumpAppendAdd
    \/ PumpAppendRaised
    \/ PumpBufferAppend
    \/ ChildWrite
    \/ ChildExit
    \/ ChildTerminated

Spec == Init /\ [][Next]_vars

\* ------------------------------------------------- PrivateSequenceHandler
\* replay.py:16-17: the escape byte and the bell that ends an OSC sequence
ESC == 27
BEL == 7

\* replay.py:16: the characters of [\d;]
ParamChars == 48..57 \cup {59}

\* replay.py:16: [\d;]* takes every parameter character from position j on
RECURSIVE SkipParams(_, _)
SkipParams(text, j) ==
    IF j <= Len(text) /\ text[j] \in ParamChars THEN SkipParams(text, j + 1) ELSE j

\* replay.py:16: _DEC_PRIVATE_RE matched at position i: ESC [ ? params h|l;
\* the position of the last character of the match, 0 without a match
DecMatchEnd(text, i) ==
    IF i + 3 <= Len(text) /\ text[i] = ESC /\ text[i + 1] = 91 /\ text[i + 2] = 63
    THEN LET j == SkipParams(text, i + 3)
         IN  IF j <= Len(text) /\ text[j] \in {104, 108} THEN j ELSE 0
    ELSE 0

\* replay.py:17: .*? stops at the first BEL or ESC \ from position j on
RECURSIVE OscTerminator(_, _)
OscTerminator(text, j) ==
    IF j > Len(text) THEN 0
    ELSE IF text[j] = BEL THEN j
    ELSE IF text[j] = ESC /\ j + 1 <= Len(text) /\ text[j + 1] = 92 THEN j + 1
    ELSE OscTerminator(text, j + 1)

\* replay.py:17: _OSC_RE matched at position i: ESC ] ... BEL or ESC ] ... ESC \
OscMatchEnd(text, i) ==
    IF i + 1 <= Len(text) /\ text[i] = ESC /\ text[i + 1] = 93
    THEN OscTerminator(text, i + 2)
    ELSE 0

MatchEnd(kind, text, i) ==
    IF kind = "dec-private" THEN DecMatchEnd(text, i) ELSE OscMatchEnd(text, i)

\* the text holds a sequence of the kind
HasSequence(kind, text) == \E i \in 1..Len(text) : MatchEnd(kind, text, i) # 0

\* replay.py:336-337: json.dumps(seq)[1:-1]
HexDigit(d) == IF d < 10 THEN 48 + d ELSE 87 + d

ReprEscapeChar(c) ==
    CASE c = 34 -> <<92, 34>>
      [] c = 92 -> <<92, 92>>
      [] c = 8 -> <<92, 98>>
      [] c = 9 -> <<92, 116>>
      [] c = 10 -> <<92, 110>>
      [] c = 12 -> <<92, 102>>
      [] c = 13 -> <<92, 114>>
      [] c \notin {34, 92, 8, 9, 10, 12, 13} /\ (c < 32 \/ c > 127) ->
            <<92, 117, HexDigit(c \div 4096), HexDigit((c \div 256) % 16),
              HexDigit((c \div 16) % 16), HexDigit(c % 16)>>
      [] OTHER -> <<c>>

RECURSIVE ReprEscape(_)
ReprEscape(seq) ==
    IF seq = <<>> THEN <<>> ELSE ReprEscapeChar(Head(seq)) \o ReprEscape(Tail(seq))

\* replay.py:48-53: ParseWarning(kind, original, normalized="")
ParseWarning(kind, seq) == [kind |-> kind, original |-> ReprEscape(seq), normalized |-> <<>>]

\* replay.py:90-105: pattern.sub(repl, text) from position i on: matches are
\* taken left to right and do not overlap; a match is kept when the capability
\* is on, deleted with a warning otherwise
RECURSIVE ReSub(_, _, _, _)
ReSub(kind, keep, text, i) ==
    IF i > Len(text) THEN [text |-> <<>>, warnings |-> <<>>]
    ELSE LET e == MatchEnd(kind, text, i)
         IN  IF e = 0
             THEN LET r == ReSub(kind, keep, text, i + 1)
                  IN  [text |-> <<text[i]>> \o r.text, warnings |-> r.warnings]
             ELSE LET r == ReSub(kind, keep, text, e + 1)
                      seq == SubSeq(text, i, e)
                  IN  IF keep
                      THEN [text |-> seq \o r.text, warnings |-> r.warnings]
                      ELSE [text |-> r.text,
                            warnings |-> <<ParseWarning(kind, seq)>> \o r.warnings]

NormalizeUndecoded(caps, chunk) ==
    LET dec == ReSub("dec-private", caps.supports_dec_private, chunk, 1)
        osc == ReSub("osc-suppressed", caps.allow_osc, dec.text, 1)
    IN  [text |-> osc.text, warnings |-> dec.warnings \o osc.warnings]

\* replay.py:86-106: PrivateSequenceHandler.normalize
Normalize(caps, chunk) ==
    LET text == Decode(chunk)
        dec == ReSub("dec-private", caps.supports_dec_private, text, 1)
        osc == ReSub("osc-suppressed", caps.allow_osc, dec.text, 1)
    IN  [text |-> osc.text, warnings |-> dec.warnings \o osc.warnings]

\* every byte string over the alphabet of length n or less
Strings(alphabet, n) == UNION {[1..k -> alphabet] : k \in 0..n}

\* the bytes of an OSC sequence: ESC ] BEL
OscBytes == {ESC, 93, BEL}

\* those, the bytes [ ? h of a DEC-private sequence, and 0x80, which is not
\* valid UTF-8 on its own
SequenceBytes == OscBytes \cup {91, 63, 104, 128}

\* an OSC sequence with a DEC-private sequence in its body, alone and after a
\* printable byte
NestedChunks ==
    { <<ESC, 93, ESC, 91, 63, 104, BEL>>, <<104, ESC, 93, ESC, 91, 63, 104, BEL>> }

\* the chunks normalize is applied to
NormChunks ==
    Strings(OscBytes, MaxLen) \cup Strings(SequenceBytes, MaxLen - 2) \cup NestedChunks

CapabilitySet == {TerminalCapabilities(d, o) : d \in BOOLEAN, o \in BOOLEAN}

NormApps ==
    {[f |-> "normalize", arg |-> [capabilities |-> caps, chunk |-> chunk],
      out |-> <<>>, done |-> FALSE] : caps \in CapabilitySet, chunk \in NormChunks}

\* replay.py:86-106: handler.normalize(chunk) is called and returns
ApplyNormalize ==
    /\ mode = "fn" /\ app.f = "normalize" /\ ~app.done
    /\ app' = [app EXCEPT !.out = Normalize(app.arg.capabilities, app.arg.chunk),
                           !.done = TRUE]
    /\ UNCHANGED <<mode, recVars, regVars, call, ops, runVars, replayVars, api>>

\* ------------------------------------------------------- extract_keyframes
\* replay.py:118-123: ScreenState; cells stands for the whole picture (cursor
\* and cells)
ScreenState(off, cells) == [offset |-> off, cells |-> cells]

NoState == [p |-> FALSE, v |-> ScreenState(0, <<>>)]

\* replay.py:218-222: _locate_state, the loop from index i on
RECURSIVE LocateFrom(_, _, _)
LocateFrom(states, off, i) ==
    IF i > Len(states)
    THEN IF states # <<>> THEN Some(states[Len(states)]) ELSE NoState
    ELSE IF states[i].offset >= off THEN Some(states[i])
    ELSE LocateFrom(states, off, i + 1)

LocateStateAbove(states, off) ==
    IF \E i \in 1..Len(states) : states[i].offset > off
    THEN Some(states[CHOOSE i \in 1..Len(states) :
                       /\ states[i].offset > off
                       /\ \A j \in 1..(i - 1) : ~(states[j].offset > off)])
    ELSE IF states # <<>> THEN Some(states[Len(states)]) ELSE NoState

\* replay.py:218-222: _locate_state
LocateState(states, off) == LocateFrom(states, off, 1)

MapSetFirst(mapping, label, state) ==
    [l \in DOMAIN mapping \cup {label} |->
        IF l \in DOMAIN mapping THEN mapping[l] ELSE state]

\* replay.py:214: mapping[frame.label] = candidate
MapSet(mapping, label, state) ==
    [l \in DOMAIN mapping \cup {label} |-> IF l = label THEN state ELSE mapping[l]]

\* replay.py:211-214: the loop over the keyframes from index k on
RECURSIVE ExtractLoop(_, _, _, _)
ExtractLoop(states, keyframes, k, mapping) ==
    IF k > Len(keyframes) THEN mapping
    ELSE LET candidate == LocateState(states, keyframes[k].offset)
         IN  ExtractLoop(states, keyframes, k + 1,
                         IF candidate.p
                         THEN MapSet(mapping, keyframes[k].label, candidate.v)
                         ELSE mapping)

\* replay.py:207-215: extract_keyframes
ExtractKeyframes(states, keyframes) ==
    IF states = <<>> THEN <<>> ELSE ExtractLoop(states, keyframes, 1, <<>>)

\* the state sequences handed over: offsets in the order parse leaves them,
\* the i-th state showing picture i
StateLists ==
    {[i \in 1..Len(offs) |-> ScreenState(offs[i], <<i>>)] :
        offs \in {o \in Strings(0..MaxFrames, MaxFrames + 1) :
                    \A i \in 1..Len(o) : \A j \in i..Len(o) : o[i] <= o[j]}}

\* recording.py:11-16: the keyframes handed over (label and offset)
KeyframeLists ==
    Strings([label : Labels, offset : 0..(MaxFrames + 1)], MaxFrames)

KeyApps ==
    {[f |-> "extract_keyframes", arg |-> [states |-> sts, keyframes |-> kfs],
      out |-> <<>>, done |-> FALSE] : sts \in StateLists, kfs \in KeyframeLists}

\* replay.py:207-215: extract_keyframes(states, keyframes) is called and returns
ApplyExtract ==
    /\ mode = "fn" /\ app.f = "extract_keyframes" /\ ~app.done
    /\ app' = [app EXCEPT !.out = ExtractKeyframes(app.arg.states, app.arg.keyframes),
                           !.done = TRUE]
    /\ UNCHANGED <<mode, recVars, regVars, call, ops, runVars, replayVars, api>>

\* --------------------------------------------------------- OutputCondition
\* the longest text a condition is asked about
MaxText == 2

\* script.py:61-62: re.compile(self.regex); of the patterns used here only
\* the one with an unclosed "(" is not a regular expression
Compiles(r) == \A i \in 1..Len(r.lit) : r.lit[i] # 40

\* script.py:57-62: OutputCondition.__post_init__; the exception raised, or
\* None
PostInit(cond) ==
    IF ~cond.contains.p /\ ~cond.regex.p /\ ~cond.predicate.p THEN "ValueError"
    ELSE IF cond.regex.p /\ ~Compiles(cond.regex.v) THEN "re.error"
    ELSE None

\* the conditions constructed: contains None, "" or "a"; regex None, "", "a",
\* "a$", "$" or "("; predicate None or one of the callables
Conditions ==
    {OutputCondition(c, r, q) :
        c \in {NoText, Some(<<>>), Some(<<97>>)},
        r \in {NoRegex} \cup {Some(Regex(lit, end)) :
                                lit \in {<<>>, <<97>>}, end \in BOOLEAN}
                        \cup {Some(Regex(<<40>>, FALSE))},
        q \in {NoPredicate, Some("nonempty"), Some("single")}}

CondApps ==
    {[f |-> "condition", arg |-> [cond |-> cond, text |-> text],
      out |-> <<>>, done |-> FALSE] :
        cond \in Conditions, text \in Strings({97, 98, LF}, MaxText)}

\* script.py:51-71: the condition is constructed and, unless that raised,
\* asked about the text
ApplyCondition ==
    /\ mode = "fn" /\ app.f = "condition" /\ ~app.done
    /\ LET error == PostInit(app.arg.cond)
       IN  app' = [app EXCEPT
                     !.out = [error |-> error,
                              matched |-> error = None
                                           /\ Matches(app.arg.cond, app.arg.text)],
                     !.done = TRUE]
    /\ UNCHANGED <<mode, recVars, regVars, call, ops, runVars, replayVars, api>>

\* ------------------------------------------------------------ PtyExitStatus
\* the return codes of a child: ended by itself (0, 1, 2, 255) or by a
\* signal (SIGHUP, SIGINT, SIGKILL, SIGTERM)
ReturnCodes == ExitCodes \cup {2, 255, -1, -9, -15}

WaitApps ==
    {[f |-> "wait", arg |-> rc, out |-> <<>>, done |-> FALSE] : rc \in ReturnCodes}

\* pty_runner.py:150-155, script.py:211-213: wait translates the return code,
\* run copies the status into the artifacts
ApplyWait ==
    /\ mode = "fn" /\ app.f = "wait" /\ ~app.done
    /\ LET status == ExitStatus(app.arg)
       IN  app' = [app EXCEPT
                     !.out = [status |-> status, succeeded |-> Succeeded(status),
                              artifacts |-> SessionArtifacts(status)],
                     !.done = TRUE]
    /\ UNCHANGED <<mode, recVars, regVars, call, ops, runVars, replayVars, api>>

\* ------------------------------------------------------ build_script_config
\* the longest step list of a scenario
MaxSteps == 2

\* dsl/model.py:12-15: Expectation
Expectation(contains, regex) == [contains |-> contains, regex |-> regex]
NoExpectation == [p |-> FALSE, v |-> Expectation(NoText, NoRegex)]

\* dsl/model.py:43-50: CommandStep
CommandStep(run, mark, expect, timeout, delay, send_newline) ==
    [kind |-> "command", run |-> run, mark |-> mark, expect |-> expect,
     timeout |-> timeout, delay |-> delay, send_newline |-> send_newline]

\* dsl/model.py:53-56: WaitStepDef
WaitStepDef(expect, timeout) == [kind |-> "wait", expect |-> expect, timeout |-> timeout]

\* dsl/model.py:59-61: SnapshotStep
SnapshotStep(label) == [kind |-> "snapshot", label |-> label]

\* dsl/model.py:64-67: ResizeStepDef
ResizeStepDef(rows, cols) == [kind |-> "resize", rows |-> rows, cols |-> cols]

\* dsl/planner.py:100-101: _to_condition
ToCondition(expect) == OutputCondition(expect.contains, expect.regex, NoPredicate)

BuildInputStepNoTimeout(step) ==
    [InputStep(step.run, step.mark,
               IF step.expect.p THEN Some(ToCondition(step.expect.v)) ELSE NoExpect,
               NoNumber, step.send_newline)
        EXCEPT !.delay = step.delay]

\* dsl/planner.py:83-92: _build_input_step
BuildInputStep(step) ==
    [InputStep(step.run, step.mark,
               IF step.expect.p THEN Some(ToCondition(step.expect.v)) ELSE NoExpect,
               step.timeout, step.send_newline)
        EXCEPT !.delay = step.delay]

\* dsl/planner.py:95-97: _build_wait_step
BuildWaitStep(step) == WaitStep(ToCondition(step.expect), step.timeout)

\* dsl/planner.py:69-76: the step planned for one scenario step
PlanOne(step) ==
    CASE step.kind = "command" -> BuildInputStep(step)
      [] step.kind = "wait" -> BuildWaitStep(step)
      [] step.kind = "snapshot" -> MarkStep(step.label)
      [] step.kind = "resize" -> ResizeStep(PtySize(step.rows, step.cols))

\* dsl/planner.py:84, 96, script.py:57-62: the exception the construction of
\* the step's OutputCondition raises, or None
PlanError(step) ==
    IF step.kind = "command" /\ step.expect.p THEN PostInit(ToCondition(step.expect.v))
    ELSE IF step.kind = "wait" THEN PostInit(ToCondition(step.expect))
    ELSE None

\* dsl/planner.py:64-80: _plan_steps from step i on, planned so far given; the
\* first exception ends the loop
RECURSIVE PlanSteps(_, _, _)
PlanSteps(steps, i, planned) ==
    IF i > Len(steps) THEN [error |-> None, steps |-> planned]
    ELSE IF PlanError(steps[i]) # None
         THEN [error |-> PlanError(steps[i]), steps |-> <<>>]
    ELSE PlanSteps(steps, i + 1, Append(planned, PlanOne(steps[i])))

\* the steps scenarios are made of
ScenarioSteps ==
    { CommandStep(<<97>>, Some("m1"), Some(Expectation(Some(<<97>>), NoRegex)),
                  Some(5), 0, TRUE),
      CommandStep(<<>>, NoMark, NoExpectation, NoNumber, 1, FALSE),
      CommandStep(<<97>>, Some(""), Some(Expectation(NoText, NoRegex)),
                  NoNumber, 0, TRUE),
      WaitStepDef(Expectation(NoText, Some(Regex(<<97>>, TRUE))), 10),
      WaitStepDef(Expectation(NoText, Some(Regex(<<40>>, FALSE))), 1),
      SnapshotStep("m2"),
      SnapshotStep(""),
      ResizeStepDef(40, 100) }

PlanApps ==
    {[f |-> "plan", arg |-> steps, out |-> <<>>, done |-> FALSE] :
        steps \in Strings(ScenarioSteps, MaxSteps)}

\* dsl/planner.py:34-51: build_script_config plans the steps of the scenario
ApplyPlan ==
    /\ mode = "fn" /\ app.f = "plan" /\ ~app.done
    /\ app' = [app EXCEPT !.out = PlanSteps(app.arg, 1, <<>>), !.done = TRUE]
    /\ UNCHANGED <<mode, recVars, regVars, call, ops, runVars, replayVars, api>>

\* ---------------------------------------------------------------- InputStep
InputApps ==
    {[f |-> "input", arg |-> InputStep(payload, NoMark, NoExpect, NoNumber, nl),
      out |-> <<>>, done |-> FALSE] :
        payload \in Strings({97, 233, LF}, MaxText), nl \in BOOLEAN}

\* script.py:248-251: the bytes _run_input_step hands to session.write
ApplyInputBytes ==
    /\ mode = "fn" /\ app.f = "input" /\ ~app.done
    /\ app' = [app EXCEPT !.out = InputBytes(app.arg), !.done = TRUE]
    /\ UNCHANGED <<mode, recVars, regVars, call, ops, runVars, replayVars, api>>

\* one function of the package is applied to one argument
FnInit ==
    /\ mode = "fn"
    /\ ObjInit
    /\ ops = [t \in Threads |-> 0]
    /\ RunIdle
    /\ parser = NewParser(DefaultCapabilities) /\ parse = NoParse /\ results = <<>>
    /\ api = NoApi
    /\ app \in NormApps \cup KeyApps \cup CondApps \cup WaitApps
                \cup PlanApps \cup InputApps

FnNext ==
    \/ ApplyNormalize
    \/ ApplyExtract
    \/ ApplyCondition
    \/ ApplyWait
    \/ ApplyPlan
    \/ ApplyInputBytes

FnSpec == FnInit /\ [][FnNext]_vars

\* -------------------------------------------------------- AnsiReplayParser
\* the number of pieces a recorded file is made of, the largest chunk size
\* and the number of parse calls on one file
MaxPieces == 3
MaxChunk == 3
MaxParses == 2

\* a printable byte, a byte that is not valid UTF-8, an OSC sequence and a
\* DEC-private sequence
Pieces == {<<104>>, <<128>>, <<ESC, 93, BEL>>, <<ESC, 91, 63, 104>>}

RECURSIVE Flatten(_)
Flatten(ps) == IF ps = <<>> THEN <<>> ELSE Head(ps) \o Flatten(Tail(ps))

\* the recorded files that are parsed
Files == {Flatten(ps) : ps \in Strings(Pieces, MaxPieces)}

\* chunk_size: -1 reads the whole file, 0 reads nothing
ChunkSizes == {-1} \cup 0..MaxChunk

\* replay.py:166: handle.read(chunk_size) at position pos of the file
Read(data, pos, n) ==
    IF n < 0 THEN SubSeq(data, pos + 1, Len(data))
    ELSE SubSeq(data, pos + 1, IF pos + n < Len(data) THEN pos + n ELSE Len(data))

\* replay.py:56-59: WarningEntry
WarningEntry(off, warning) == [offset |-> off, warning |-> warning]

\* replay.py:65-66, 170-171: collector.add for each warning of one chunk
RECURSIVE CollectorAdd(_, _, _)
CollectorAdd(entries, warnings, off) ==
    IF warnings = <<>> THEN entries
    ELSE CollectorAdd(Append(entries, WarningEntry(off, Head(warnings))),
                      Tail(warnings), off)

CollectorKept(entries) == entries

\* replay.py:71-72: WarningCollector.clear
CollectorClear(entries) == <<>>

\* replay.py:74-76: WarningCollector.entries, a tuple copy of the list
Entries(entries) == entries

ConsumedNormalized(consumed, raw, normalized) == consumed + Len(normalized)

\* replay.py:172: self._bytes_consumed += len(raw)
Consumed(consumed, raw, normalized) == consumed + Len(raw)

WarningOffsetAfter(consumed, raw) == consumed + Len(raw)

\* replay.py:170-172: the offset given to collector.add is the counter before
\* the chunk is added to it
WarningOffset(consumed, raw) == consumed

\* replay.py:130-133: ReplayResult
ReplayResult(states, warnings) == [states |-> states, warnings |-> warnings]

\* replay.py:158-164: a new screen and stream, an empty state list, the
\* collector cleared, the counter reset, the file opened
ParseBegin ==
    /\ mode = "replay" /\ parse.pc = "idle" /\ Len(results) < MaxParses
    /\ parser' = [parser EXCEPT !.entries = CollectorClear(@), !.bytes_consumed = 0]
    /\ parse' = [parse EXCEPT !.pc = "loop", !.pos = 0, !.states = <<>>,
                              !.fed = <<>>]
    /\ UNCHANGED <<mode, recVars, regVars, call, ops, runVars, results, app, api>>

\* replay.py:165-176: one non-empty chunk is read, normalized, its warnings
\* collected at the offset of the chunk's start, the counter advanced and,
\* unless nothing is left of the chunk, the text fed and a snapshot appended
ParseChunk ==
    /\ mode = "replay" /\ parse.pc = "loop"
    /\ LET raw == Read(parse.data, parse.pos, parse.chunk_size)
           n == Normalize(parser.capabilities, raw)
           consumed == Consumed(parser.bytes_consumed, raw, n.text)
           fed == parse.fed \o n.text
       IN  /\ raw # <<>>
           /\ parser' = [parser EXCEPT
                           !.entries = CollectorAdd(@, n.warnings,
                                          WarningOffset(parser.bytes_consumed, raw)),
                           !.bytes_consumed = consumed]
           /\ parse' = [parse EXCEPT
                           !.pos = @ + Len(raw),
                           !.fed = fed,
                           !.states = IF n.text = <<>> THEN @
                                      ELSE Append(@, ScreenState(consumed, fed))]
    /\ UNCHANGED <<mode, recVars, regVars, call, ops, runVars, results, app, api>>

\* replay.py:167-168, 178: the read returns nothing; the result is returned
ParseEnd ==
    /\ mode = "replay" /\ parse.pc = "loop"
    /\ Read(parse.data, parse.pos, parse.chunk_size) = <<>>
    /\ results' = Append(results, ReplayResult(parse.states, Entries(parser.entries)))
    /\ parse' = [parse EXCEPT !.pc = "idle"]
    /\ UNCHANGED <<mode, recVars, regVars, call, ops, runVars, parser, app, api>>

\* replay.py:137-147: the next parse is made on a parser constructed anew
\* with the same capabilities
FreshParser ==
    /\ mode = "replay" /\ parse.pc = "idle" /\ Len(results) < MaxParses
    /\ parser # NewParser(parser.capabilities)
    /\ parser' = NewParser(parser.capabilities)
    /\ UNCHANGED <<mode, recVars, regVars, call, ops, runVars, parse, results, app, api>>

\* a recorded file is parsed MaxParses times with one chunk size
ReplayInit ==
    /\ mode = "replay"
    /\ ObjInit
    /\ ops = [t \in Threads |-> 0]
    /\ RunIdle
    /\ app = NoApp
    /\ api = NoApi
    /\ results = <<>>
    /\ \E caps \in CapabilitySet : parser = NewParser(caps)
    /\ \E data \in Files, n \in ChunkSizes :
          parse = [NoParse EXCEPT !.data = data, !.chunk_size = n]

ReplayNext ==
    \/ ParseBegin
    \/ ParseChunk
    \/ ParseEnd
    \/ FreshParser

ReplaySpec == ReplayInit /\ [][ReplayNext]_vars

\* -------------------------------------- PtySessionRunner outside its scope
\* what a call on the session leaves alone
apiRest ==
    <<mode, recVars, regVars, call, drvVars, bufVars, pumpVars, replayVars, app,
      termSent, ptyOut, ptyIn, emitted, childOut>>

\* the window sizes a runner is constructed with or resized to
Sizes == {DefaultSize, PtySize(30, 120), PtySize(40, 100), PtySize(70000, 80)}

\* pty_runner.py:179: struct.pack("HHHH", rows, cols, 0, 0) takes unsigned
\* 16-bit values and raises struct.error for any other
Packable(sz) == sz.rows \in 0..65535 /\ sz.cols \in 0..65535

\* the timeouts of read and wait: None (no timeout), 0 or 1 second
Timeouts == {NoNumber, Some(0), Some(1)}

\* one more call may be made on the session
MayCall == mode = "api" /\ api.error # "blocked" /\ ops["driver"] < MaxOps

\* the runner exists and is not inside its with block
OutsideScope == api.runner \in {"new", "released"}

\* the call is recorded with its outcome
Called(op, error, io) ==
    /\ api' = [api EXCEPT !.op = op, !.error = error, !.io = io]
    /\ ops' = [ops EXCEPT !["driver"] = @ + 1]

\* pty_runner.py:49-51: PtySessionRunner([]) raises ValueError
ConstructEmpty ==
    /\ mode = "api" /\ api.runner = "none" /\ api.op = "none"
    /\ api' = [api EXCEPT !.op = "init", !.error = "ValueError"]
    /\ UNCHANGED <<apiRest, ops, master_fd, process, size, winsize, child>>

\* pty_runner.py:39-61: PtySessionRunner(command, size=sz): no fd, no process,
\* an empty selector
Construct ==
    /\ mode = "api" /\ api.runner = "none"
    /\ \E sz \in Sizes : size' = sz
    /\ api' = [api EXCEPT !.runner = "new", !.op = "init", !.error = None]
    /\ master_fd' = FALSE /\ process' = FALSE
    /\ UNCHANGED <<apiRest, ops, winsize, child>>

\* pty_runner.py:63-86: PtySessionRunner.__enter__: the pair is allocated, the
\* master registered, the size applied, the child spawned, the slave closed
ApiEnter ==
    /\ mode = "api" /\ api.runner = "new" /\ api.error # "blocked"
    /\ Packable(size)
    /\ master_fd' = TRUE /\ process' = TRUE /\ child' = "running"
    /\ winsize' = size
    /\ api' = [api EXCEPT !.runner = "open", !.op = "enter", !.error = None,
                           !.io = TRUE, !.slave_fd = FALSE]
    /\ UNCHANGED <<apiRest, ops, size>>

\* pty_runner.py:64-70, 179: _apply_winsize raises out of __enter__ after
\* openpty and register: both fds stay set and open, the master registered;
\* the with statement (script.py:190-195) does not call __exit__
ApiEnterWinsizeError ==
    /\ mode = "api" /\ api.runner = "new" /\ api.error # "blocked"
    /\ ~Packable(size)
    /\ master_fd' = TRUE
    /\ api' = [api EXCEPT !.runner = "failed", !.op = "enter",
                           !.error = "struct.error", !.io = TRUE, !.slave_fd = TRUE]
    /\ UNCHANGED <<apiRest, ops, size, winsize, process, child>>

\* pty_runner.py:64-81: subprocess.Popen raises (the command cannot be
\* executed) after the size was applied: both fds stay set and open
ApiEnterSpawnError ==
    /\ mode = "api" /\ api.runner = "new" /\ api.error # "blocked"
    /\ Packable(size)
    /\ master_fd' = TRUE
    /\ winsize' = size
    /\ api' = [api EXCEPT !.runner = "failed", !.op = "enter",
                           !.error = "OSError", !.io = TRUE, !.slave_fd = TRUE]
    /\ UNCHANGED <<apiRest, ops, size, process, child>>

\* pty_runner.py:88-110: PtySessionRunner.__exit__: the child is ended and
\* reaped, the master unregistered and closed, fds and process forgotten
ApiExit ==
    /\ mode = "api" /\ api.runner = "open"
    /\ master_fd' = FALSE /\ process' = FALSE /\ child' = "exited"
    /\ api' = [api EXCEPT !.runner = "released", !.op = "exit", !.error = None,
                           !.io = TRUE]
    /\ UNCHANGED <<apiRest, ops, size, winsize>>

\* pty_runner.py:126-134: read outside the scope: select on a selector with
\* no fd registered returns no event after the timeout, or never without a
\* timeout; self.master_fd is not reached
ApiRead ==
    /\ MayCall /\ OutsideScope /\ ~master_fd
    /\ \E timeout \in Timeouts :
          Called("read", IF timeout.p THEN "TimeoutError" ELSE "blocked", FALSE)
    /\ UNCHANGED <<apiRest, master_fd, process, size, winsize, child>>

\* pty_runner.py:136-139, 112-117: write outside the scope: self.master_fd
\* raises before os.write
ApiWrite ==
    /\ MayCall /\ OutsideScope /\ ~master_fd
    /\ Called("write", "RuntimeError", FALSE)
    /\ UNCHANGED <<apiRest, master_fd, process, size, winsize, child>>

\* pty_runner.py:141-155, 119-124: wait outside the scope: self.process raises
ApiWait ==
    /\ MayCall /\ OutsideScope /\ ~process
    /\ Called("wait", "RuntimeError", FALSE)
    /\ UNCHANGED <<apiRest, master_fd, process, size, winsize, child>>

\* pty_runner.py:157-163: terminate outside the scope: self.process raises,
\* and only ProcessLookupError is caught
ApiTerminate ==
    /\ MayCall /\ OutsideScope /\ ~process
    /\ Called("terminate", "RuntimeError", FALSE)
    /\ UNCHANGED <<apiRest, master_fd, process, size, winsize, child>>

\* pty_runner.py:165-166: is_running outside the scope: self.process raises
ApiIsRunning ==
    /\ MayCall /\ OutsideScope /\ ~process
    /\ Called("is_running", "RuntimeError", FALSE)
    /\ UNCHANGED <<apiRest, master_fd, process, size, winsize, child>>

\* the resize call is recorded with its argument and its outcome
CalledResize(sz, error, io) ==
    /\ api' = [api EXCEPT !.op = "resize", !.error = error, !.io = io, !.arg = sz]
    /\ ops' = [ops EXCEPT !["driver"] = @ + 1]

\* pty_runner.py:168-182: resize outside the scope: the size is stored, then
\* _apply_winsize raises before the ioctl
ApiResize ==
    /\ MayCall /\ OutsideScope /\ ~master_fd
    /\ \E sz \in Sizes :
          /\ size' = sz
          /\ CalledResize(sz, "RuntimeError", FALSE)
    /\ UNCHANGED <<apiRest, master_fd, process, winsize, child>>

\* pty_runner.py:168-182: resize inside the scope: the size is stored, packed
\* and applied to the master; the slave was closed by __enter__
ApiResizeOpen ==
    /\ MayCall /\ api.runner = "open" /\ master_fd
    /\ \E sz \in Sizes :
          /\ size' = sz
          /\ IF Packable(sz)
                THEN winsize' = sz /\ CalledResize(sz, None, TRUE)
                ELSE UNCHANGED winsize /\ CalledResize(sz, "struct.error", FALSE)
    /\ UNCHANGED <<apiRest, master_fd, process, child>>

\* a runner is constructed, entered at most once, and called outside its scope
ApiInit ==
    /\ mode = "api"
    /\ ObjInit
    /\ ops = [t \in Threads |-> 0]
    /\ RunIdle
    /\ ExtIdle

ApiNext ==
    \/ ConstructEmpty
    \/ Construct
    \/ ApiEnter
    \/ ApiEnterWinsizeError
    \/ ApiEnterSpawnError
    \/ ApiExit
    \/ ApiRead
    \/ ApiWrite
    \/ ApiWait
    \/ ApiTerminate
    \/ ApiIsRunning
    \/ ApiResize
    \/ ApiResizeOpen

ApiSpec == ApiInit /\ [][ApiNext]_vars

\* ------------------------------------------------------------------ claims
Ended == dpc \in {"returned", "raised"}

\* the pump thread reads from the PTY session or writes to the recorder
PumpTouches ==
    \/ ppc \in {"read", "drain"} /\ ppc' # ppc
    \/ call["pump"].pc = "acquire" /\ call'["pump"].pc # "acquire"

\* a condition that, once true of a text, is true of every extension of it
Monotone(cond) ==
    /\ ~(cond.regex.p /\ cond.regex.v.end)
    /\ ~(cond.predicate.p /\ cond.predicate.v # "nonempty")

C1_State ==
    /\ offset = Len(log)
    /\ rlock = None => file = log
    /\ closed => file = log

C1_Step ==
    /\ offset' >= offset
    /\ \A t \in Threads :
          (call[t].pc # "ret" /\ call'[t].pc = "ret" /\ call'[t].op = "append"
              /\ ~call'[t].raised)
          => (call'[t].ret = Len(log') /\ call'[t].ret = offset')

\* C1: whatever threads issue the appends, the offset is the total length of
\* the chunks whose append took effect, each append returns that total, the
\* offset never decreases, and with no append in progress (so after close) the
\* file is those chunks in the order they took effect.
C1_RecorderOffsets == []C1_State /\ [][C1_Step]_vars

C1_Witness ==
    /\ mode = "rec" /\ closed
    /\ file = <<97, 195, 169>>
    /\ ops["pump"] = 1 /\ ops["driver"] = 2
    /\ call["pump"].op = "append" /\ call["pump"].pc = "ret" /\ call["pump"].ret = 3

\* C2: mark appends and returns a keyframe whose offset is a value the
\* recorder's offset held during the call, and exactly the number of bytes
\* appended so far when no append was in progress at the read.
C2_MarkOffset ==
    \A t \in Threads :
        (call[t].op = "mark" /\ call[t].pc = "ret")
        => /\ \E i \in 1..Len(records) :
                 records[i] = [label |-> call[t].label, offset |-> call[t].ret]
           /\ call[t].ret \in call[t].seen
           /\ call[t].quiet => call[t].ret = call[t].total

C2_Witness ==
    \E t \in Threads :
        /\ mode = "rec"
        /\ call[t].op = "mark" /\ call[t].pc = "ret"
        /\ ~call[t].quiet /\ Cardinality(call[t].seen) = 2
        /\ call[t].ret = 1

\* C3: the buffer is a prefix of the recorded bytes and never longer than the
\* recorder's offset, so an offset read after bytes were seen in the buffer is
\* at or past their end.
C3_BufferBehindRecorder ==
    mode = "run" => (IsPrefix(buffer, file) /\ Len(buffer) <= offset)

C3_Witness ==
    /\ dpc = "marking" /\ call["driver"].pc = "store"
    /\ buffer # <<>> /\ Len(buffer) < offset
    /\ call["driver"].ret = offset

\* C4: a chunk whose append starts after a mark has returned is written at or
\* above that keyframe's offset and its append ends strictly above it.
C4_LaterChunksAboveMark ==
    LET c == call["pump"]
    IN  (mode = "run" /\ c.op = "append")
        => /\ c.pc = "add" => c.start >= c.floor
           /\ (c.pc = "ret" /\ ~c.raised) => (c.start >= c.floor /\ c.ret > c.floor)

C4_Witness ==
    /\ mode = "run"
    /\ call["pump"].op = "append" /\ call["pump"].pc = "ret" /\ ~call["pump"].raised
    /\ call["pump"].floor > 0 /\ call["pump"].start = call["pump"].floor

\* C5: when run has returned or raised, every keyframe in keyframes.json and
\* in the returned artifacts has an offset at most the recorder's final offset,
\* which is the length of ansi.bin.
C5_KeyframesWithinFile ==
    Ended
    => /\ offset = Len(file)
       /\ \A i \in 1..Len(json.frames) : json.frames[i].offset <= offset
       /\ \A i \in 1..Len(artifacts.keyframes) : artifacts.keyframes[i].offset <= offset

C5_Witness ==
    /\ dpc = "returned" /\ artifacts.p
    /\ Len(json.frames) = 2 /\ json.frames[2].offset > 0
    /\ json.frames[2].offset = offset

\* C6: wait_until returns true only when the predicate holds of the decoded
\* buffer at the moment of return.
C6_NoSpuriousTrue ==
    [][(dpc = "wu_check" /\ dpc' = "wu_ret" /\ wuRet')
          => Matches(CurCond, Decode(buffer'))]_vars

C6_Witness ==
    /\ dpc = "wu_ret" /\ wuRet /\ expired
    /\ CurCond = EndsInA /\ Len(buffer) >= 2

\* C7 as stated: for every predicate, if it held at a moment between the call
\* and the deadline, wait_until returns true.
C7_AnyPredicateSeen == dpc = "wu_ret" => (pSeen => wuRet)

\* C7: for a predicate that stays true once true as bytes are appended, if it
\* held at a moment between the call and the deadline, wait_until returns
\* true; it returns false only if it held at no such moment.
C7_MonotoneSeen == (dpc = "wu_ret" /\ Monotone(CurCond)) => (pSeen => wuRet)

C7_Witness ==
    /\ dpc = "wu_ret" /\ wuRet /\ pSeen
    /\ CurTimeout = 0 /\ CurCond = ContainsE9

C9_PumpWithinRun ==
    [][/\ (~Ended /\ Ended') => PumpEnded'
       /\ PumpTouches => ~closed]_vars

\* C10: on the success path ansi.bin and the buffer hold everything the child
\* wrote.
C10_CompleteOutput ==
    dpc = "returned" => (file = childOut /\ buffer = childOut)

\* the bytes PtySessionRunner.read has returned to the pump so far: the pump is
\* the only reader of the master, so they are what the child wrote less what
\* still waits in the PTY
ReadByPump == SubSeq(childOut, 1, Len(childOut) - Len(ptyOut))

\* C11: when run is over, ansi.bin is the concatenation, in read order, of the
\* chunks read returned to the pump: none dropped, duplicated or reordered.
C11_FileIsWhatWasRead ==
    Ended => file = ReadByPump

\* the input step at index i got as far as the line after its mark
PastMark(i) ==
    \/ stepIdx > i
    \/ stepIdx = i /\ dpc \in {"in_expect", "wu_check", "wu_wait", "wu_ret"}
    \/ stepIdx = i /\ Ended /\ exc = "TimeoutError"

LabelCount(frames, label) ==
    Cardinality({k \in 1..Len(frames) : frames[k].label = label})

\* C12: an input step whose mark is present has exactly one keyframe of that
\* label in the registry once the step is past its mark, and in
\* keyframes.json once run is over, also when the expectation timed out.
C12_MarkBeforeExpect ==
    \A i \in 1..Len(script) :
        (script[i].kind = "input" /\ script[i].mark.p /\ PastMark(i))
            => /\ LabelCount(records, script[i].mark.v) = 1
               /\ Ended => LabelCount(json.frames, script[i].mark.v) = 1

NormalizeDone == mode = "fn" /\ app.f = "normalize" /\ app.done

\* sequences of the kind that a left-to-right scan of the text from position i
\* on finds, one after the other
RECURSIVE CountMatches(_, _, _)
CountMatches(kind, text, i) ==
    IF i > Len(text) THEN 0
    ELSE IF MatchEnd(kind, text, i) = 0 THEN CountMatches(kind, text, i + 1)
    ELSE 1 + CountMatches(kind, text, MatchEnd(kind, text, i) + 1)

KindCount(warnings, kind) ==
    Cardinality({k \in 1..Len(warnings) : warnings[k].kind = kind})

\* C16: with both capabilities false the text normalize returns holds no
\* DEC-private and no complete OSC sequence, and there is one warning, of the
\* right kind, for each sequence deleted.
C16_NothingLeft ==
    (NormalizeDone /\ app.arg.capabilities = DefaultCapabilities)
        => /\ ~HasSequence("dec-private", app.out.text)
           /\ ~HasSequence("osc-suppressed", app.out.text)
           /\ \A k \in 1..Len(app.out.warnings) :
                 app.out.warnings[k].kind \in {"dec-private", "osc-suppressed"}
           /\ KindCount(app.out.warnings, "dec-private")
                 = CountMatches("dec-private", Decode(app.arg.chunk), 1)

\* the bytes of the chunk hold no DEC-private and no OSC sequence
CleanBytes(chunk) ==
    ~HasSequence("dec-private", chunk) /\ ~HasSequence("osc-suppressed", chunk)

\* C17 as stated: a chunk whose bytes hold no DEC-private and no OSC sequence
\* comes back as its lossy decoding, without warnings.
C17_CleanBytesDecoded ==
    (NormalizeDone /\ CleanBytes(app.arg.chunk))
        => (app.out.text = Decode(app.arg.chunk) /\ app.out.warnings = <<>>)

\* C17: a chunk whose lossy decoding holds no DEC-private and no OSC sequence
\* comes back as that decoding, without warnings, whatever the capabilities.
C17_CleanTextDecoded ==
    (NormalizeDone /\ CleanBytes(Decode(app.arg.chunk)))
        => (app.out.text = Decode(app.arg.chunk) /\ app.out.warnings = <<>>)

C17_Witness ==
    /\ NormalizeDone /\ CleanBytes(Decode(app.arg.chunk))
    /\ app.arg.chunk = <<ESC, 91, 128, 104>>
    /\ app.arg.capabilities = TerminalCapabilities(FALSE, TRUE)
    /\ app.out.text = <<ESC, 91, 104>>

ExtractDone == mode = "fn" /\ app.f = "extract_keyframes" /\ app.done

NonDecreasing(states) ==
    \A i \in 1..Len(states) : \A j \in i..Len(states) : states[i].offset <= states[j].offset

\* the first state at or after the offset, the last state when there is none
FirstAtOrAfter(states, off) ==
    IF \E i \in 1..Len(states) : states[i].offset >= off
    THEN states[CHOOSE i \in 1..Len(states) :
                  /\ states[i].offset >= off
                  /\ \A j \in 1..(i - 1) : states[j].offset < off]
    ELSE states[Len(states)]

\* keyframe k is the last of its label in the list
LastOfLabel(keyframes, k) ==
    \A n \in (k + 1)..Len(keyframes) : keyframes[n].label # keyframes[k].label

ExtractCase == ExtractDone /\ app.arg.states # <<>> /\ NonDecreasing(app.arg.states)

\* C13 as stated: every keyframe's label is mapped to the first state at or
\* after the keyframe's offset, or to the last state when there is none.
C13_EveryKeyframeLocated ==
    ExtractCase =>
        \A k \in 1..Len(app.arg.keyframes) :
            /\ app.arg.keyframes[k].label \in DOMAIN app.out
            /\ app.out[app.arg.keyframes[k].label]
                  = FirstAtOrAfter(app.arg.states, app.arg.keyframes[k].offset)

\* C13: the same for every keyframe that is the last of its label in the list.
C13_LastKeyframeLocated ==
    ExtractCase =>
        \A k \in 1..Len(app.arg.keyframes) :
            LastOfLabel(app.arg.keyframes, k) =>
                /\ app.arg.keyframes[k].label \in DOMAIN app.out
                /\ app.out[app.arg.keyframes[k].label]
                      = FirstAtOrAfter(app.arg.states, app.arg.keyframes[k].offset)

C13_Witness ==
    /\ ExtractCase
    /\ app.arg.states = <<ScreenState(0, <<1>>), ScreenState(2, <<2>>), ScreenState(2, <<3>>)>>
    /\ app.arg.keyframes = <<[label |-> "m1", offset |-> 1], [label |-> "m2", offset |-> 3]>>
    /\ app.out["m1"] = ScreenState(2, <<2>>)
    /\ app.out["m2"] = ScreenState(2, <<3>>)

\* the file OSC, 0x80, h read in chunks of three bytes without capabilities:
\* the first chunk leaves no text, the second loses its invalid byte
ReplayCase ==
    /\ mode = "replay"
    /\ parse.data = <<ESC, 93, BEL, 128, 104>> /\ parse.chunk_size = 3
    /\ parser.capabilities = DefaultCapabilities

ReplayCaseResult ==
    ReplayResult(<<ScreenState(5, <<104>>)>>,
                 <<WarningEntry(0, ParseWarning("osc-suppressed", <<ESC, 93, BEL>>))>>)

C14_State ==
    /\ NonDecreasing(parse.states)
    /\ \A i \in 1..Len(parse.states) : parse.states[i].offset <= Len(parse.data)
    /\ \A r \in Range(results) :
          /\ NonDecreasing(r.states)
          /\ \A i \in 1..Len(r.states) : r.states[i].offset <= Len(parse.data)

C14_Step ==
    Len(parse'.states) > Len(parse.states)
    => /\ parse'.states[Len(parse'.states)].offset = parse'.pos
       /\ parse'.pos = parse.pos + Len(Read(parse.data, parse.pos, parse.chunk_size))

\* C14: for any file and chunk size, the offset of every screen state is the
\* number of raw bytes read from the file up to and including the chunk the
\* state was made from, whatever normalization removed and whether or not
\* earlier chunks made a state; the offsets never decrease along the sequence
\* and never exceed the file size.
C14_StateOffsets == []C14_State /\ [][C14_Step]_vars

C14_Witness == ReplayCase /\ results = <<ReplayCaseResult>> /\ parse.pc = "idle"

\* C15: without capabilities, whatever the file and the chunk size, the text
\* fed to the VT engine holds no DEC-private and no OSC sequence, also when
\* the sequence lies across the boundary of two chunks.
C15_NothingFed ==
    (mode = "replay" /\ parser.capabilities = DefaultCapabilities)
    => /\ ~HasSequence("dec-private", parse.fed)
       /\ ~HasSequence("osc-suppressed", parse.fed)

C18_State ==
    /\ \A i, j \in 1..Len(results) : results[i] = results[j]
    /\ parse.pc = "loop" =>
          /\ parser.bytes_consumed = parse.pos
          /\ \A e \in Range(parser.entries) : e.offset <= parse.pos

C18_Step == \A i \in 1..Len(results) : Len(results') >= i /\ results'[i] = results[i]

\* C18: parse calls on the same file with the same capabilities and chunk
\* size, on the same parser or on a fresh one, return equal states and equal
\* warnings; during a parse the counter and the collected warnings cover the
\* current parse only, and a returned result is never changed afterwards.
C18_Deterministic == []C18_State /\ [][C18_Step]_vars

C18_Witness ==
    /\ ReplayCase /\ results = <<ReplayCaseResult, ReplayCaseResult>>
    /\ parser.entries # <<>>

ConditionDone == mode = "fn" /\ app.f = "condition" /\ app.done

\* C19: a condition with no field present, or with a regex that does not
\* compile, cannot be constructed; a constructed condition matches a text
\* exactly when a present field holds of it: contains is a substring, the
\* regex is found somewhere, or the callable returns true.
C19_MatchesAnyPresent ==
    ConditionDone =>
       LET cond == app.arg.cond
           text == app.arg.text
       IN  /\ (~cond.contains.p /\ ~cond.regex.p /\ ~cond.predicate.p)
                  => app.out.error # None
           /\ (cond.regex.p /\ ~Compiles(cond.regex.v)) => app.out.error # None
           /\ app.out.error = None =>
                  (app.out.matched <=>
                      \/ cond.contains.p /\ Contains(text, cond.contains.v)
                      \/ cond.regex.p /\ RegexSearch(cond.regex.v, text)
                      \/ cond.predicate.p /\ PredicateHolds(cond.predicate.v, text))

\* C20: read, write, wait, terminate, is_running and resize on a runner that
\* was not entered or was left raise the not-initialised error and do no I/O;
\* a runner with an empty command cannot be constructed.
C20_NotInitialised ==
    mode = "api" =>
       /\ (OutsideScope
           /\ api.op \in {"read", "write", "wait", "terminate", "is_running", "resize"})
             => api.error = "RuntimeError" /\ ~api.io
       /\ (api.op = "init" /\ api.runner = "none") => api.error = "ValueError"

C21_State ==
    mode = "run" =>
       /\ dpc = "sx_fin" => child = "exited"
       /\ Ended => (~master_fd /\ ~process /\ child = "exited")
       /\ termSent => dpc \in {"sx_wait", "sx_fin", "returned", "raised"}

C21_Step ==
    /\ (dpc = "sx" /\ dpc' # "sx") => (termSent' <=> child = "running")
    /\ (child = "running" /\ child' = "exited" /\ dpc' # dpc) => dpc = "sx_wait"
    /\ (master_fd /\ ~master_fd') => (dpc = "sx_fin" /\ ~process' /\ Ended')

\* C21: on every way out of run the release sends TERM exactly when the child
\* is still running, ends a child that is still running after the wait (and
\* ends a child at no other moment), and closes the master and forgets the
\* process as its last act; once run is over the child is not running and the
\* session holds neither fd nor process.
C21_ReleaseEndsChild == []C21_State /\ [][C21_Step]_vars

C21_Witness ==
    /\ mode = "run" /\ Ended /\ termSent /\ child = "exited"
    /\ ~master_fd /\ ~process /\ exc = "TimeoutError"

WaitDone == mode = "fn" /\ app.f = "wait" /\ app.done

\* C22: wait gives a non-negative return code as the returncode and no
\* signal, a negative one as the signal of its absolute value and no
\* returncode; the status and the artifacts made from it hold exactly one of
\* the two, and succeeded is true exactly for returncode 0 without signal.
C22_ExitStatus ==
    WaitDone =>
       LET rc == app.arg
           st == app.out.status
           art == app.out.artifacts
       IN  /\ rc >= 0 => (st.returncode = Some(rc) /\ ~st.signal.p)
           /\ rc < 0 => (st.signal = Some(-rc) /\ ~st.returncode.p)
           /\ st.returncode.p # st.signal.p
           /\ art.exit_status = st.returncode /\ art.signal = st.signal
           /\ art.exit_status.p # art.signal.p
           /\ app.out.succeeded <=> (st.returncode = Some(0) /\ ~st.signal.p)
           /\ app.out.succeeded <=> rc = 0

C22_Witness ==
    /\ WaitDone /\ app.arg = -15
    /\ app.out.status.signal = Some(15) /\ ~app.out.succeeded

PlanDone == mode = "fn" /\ app.f = "plan" /\ app.done

\* the expectation cannot be made an OutputCondition
Unbuildable(expect) ==
    \/ ~expect.contains.p /\ ~expect.regex.p
    \/ expect.regex.p /\ ~Compiles(expect.regex.v)

\* the planned step p is the scenario step s carried over
CarriedOver(s, p) ==
    CASE s.kind = "command" ->
            /\ p.kind = "input" /\ p.payload = s.run /\ p.mark = s.mark
            /\ p.expect_timeout = s.timeout /\ p.delay = s.delay
            /\ p.send_newline = s.send_newline
            /\ p.expect.p = s.expect.p
            /\ s.expect.p => /\ p.expect.v.contains = s.expect.v.contains
                             /\ p.expect.v.regex = s.expect.v.regex
                             /\ ~p.expect.v.predicate.p
      [] s.kind = "wait" ->
            /\ p.kind = "wait" /\ p.timeout = s.timeout
            /\ p.condition.contains = s.expect.contains
            /\ p.condition.regex = s.expect.regex
            /\ ~p.condition.predicate.p
      [] s.kind = "snapshot" -> p.kind = "mark" /\ p.label = s.label
      [] s.kind = "resize" ->
            p.kind = "resize" /\ p.size.rows = s.rows /\ p.size.cols = s.cols

\* C23: when build_script_config returns, its step list has the length of
\* the scenario's and its i-th step is the i-th scenario step carried over:
\* command to InputStep with run, mark, expect, timeout, delay and
\* send_newline, wait to WaitStep, snapshot to MarkStep with the label, resize
\* to ResizeStep with rows and cols; it raises instead exactly when an
\* expectation of the scenario cannot be made an OutputCondition.
C23_StepsCarriedOver ==
    PlanDone =>
       LET steps == app.arg
           out == app.out
       IN  /\ out.error = None =>
                 /\ Len(out.steps) = Len(steps)
                 /\ \A i \in 1..Len(steps) : CarriedOver(steps[i], out.steps[i])
           /\ out.error # None <=>
                 \E i \in 1..Len(steps) :
                    \/ steps[i].kind = "wait" /\ Unbuildable(steps[i].expect)
                    \/ steps[i].kind = "command" /\ steps[i].expect.p
                          /\ Unbuildable(steps[i].expect.v)

C23_Witness ==
    /\ PlanDone
    /\ app.arg = <<CommandStep(<<97>>, Some("m1"), Some(Expectation(Some(<<97>>), NoRegex)),
                               Some(5), 0, TRUE),
                   ResizeStepDef(40, 100)>>
    /\ app.out.error = None
    /\ app.out.steps[1].expect_timeout = Some(5)
    /\ app.out.steps[2] = ResizeStep(PtySize(40, 100))

\* the clean-up calls of run in the order of script.py:203-206 and of the
\* with statement of script.py:190-195
CleanupOrder == <<"stop", "join", "flush", "close", "release">>

\* C24: whether run returns or raises, its clean-up calls are made in the
\* order stop, join, flush, close of the recorder, release of the session, and
\* all five are made; keyframes.json is not written before the pump was asked
\* to stop, and the recorder file is not closed before keyframes.json is
\* written.
C24_CleanupOrder ==
    mode = "run" =>
       /\ IsPrefix(cleanup, CleanupOrder)
       /\ Ended => cleanup = CleanupOrder
       /\ json.written => stop_event
       /\ closed => json.written
       /\ ~master_fd /\ ppc # "idle" => closed

C24_Witness ==
    /\ mode = "run" /\ dpc = "returned" /\ exit_info.p
    /\ cleanup = CleanupOrder /\ json.written /\ closed /\ ~master_fd

C25_State ==
    mode = "run" =>
       /\ dpc = "wait_child" => stepIdx = Len(script) + 1
       /\ exit_info.p => stepIdx = Len(script) + 1
       /\ exc # None => (~artifacts.p /\ dpc # "returned")
       /\ dpc = "returned" => (artifacts.p /\ exit_info.p)

C25_Step ==
    /\ stepIdx' \in {stepIdx, stepIdx + 1}
    /\ (dpc = "wu_ret" /\ dpc' # "wu_ret" /\ ~wuRet)
          => (exc' = "TimeoutError" /\ dpc' = "stop")
    /\ exc # None
          => /\ exc' = exc /\ stepIdx' = stepIdx
             /\ ptyIn' = ptyIn /\ records' = records
             /\ size' = size /\ winsize' = winsize
    /\ ptyIn' # ptyIn => (dpc = "step" /\ CurStep.kind = "input")
    /\ records' # records => (dpc = "marking" /\ CurStep.kind \in {"input", "mark"})
    /\ size' # size => (dpc = "step" /\ CurStep.kind = "resize")

\* C25: the steps are taken one after the other in list order, each effect
\* (write, mark, resize) belongs to the step in progress, and session.wait
\* is called only after the last step; a wait that returns false makes run
\* raise TimeoutError, after which no step is taken, nothing is written,
\* marked or resized, and no SessionArtifacts is returned.
C25_StepsInOrder == []C25_State /\ [][C25_Step]_vars

C25_Witness ==
    /\ mode = "run" /\ dpc = "raised" /\ exc = "TimeoutError"
    /\ Len(script) = 2 /\ stepIdx = 1 /\ script[2].kind = "resize"
    /\ size = DefaultSize /\ ~artifacts.p

\* the pump is in its main loop (script.py:151-163)
InMainLoop(pc) == pc \in {"loop", "read", "rec"}

C26_Step ==
    (InMainLoop(ppc) /\ ~InMainLoop(ppc'))
    => \/ stop_event
       \/ ppc = "read" /\ ppc' = "drain" /\ child # "running"

\* C26: the pump leaves its main loop only with stop set, or by the break
\* after a read that timed out or returned nothing while the child is not
\* running.
C26_LeavesLoopByBreak == [][C26_Step]_vars

InputDone == mode = "fn" /\ app.f = "input" /\ app.done

\* C27: the bytes an input step offers are the UTF-8 encoding of its payload,
\* followed by one LF exactly when send_newline is set and the encoding does
\* not end in LF already; nothing else is added and nothing is removed.
C27_PayloadBytes ==
    InputDone =>
       LET enc == Encode(app.arg.payload)
           ends == enc # <<>> /\ enc[Len(enc)] = LF
       IN  /\ (app.arg.send_newline /\ ~ends) => app.out = Append(enc, LF)
           /\ (~app.arg.send_newline \/ ends) => app.out = enc
           /\ Decode(enc) = app.arg.payload

C27_Witness ==
    /\ InputDone /\ app.arg.payload = <<233>> /\ app.arg.send_newline
    /\ app.out = <<195, 169, LF>>

\* the sequences of the kind in the text, as a scan from position i finds them
RECURSIVE ScanMatches(_, _, _)
ScanMatches(kind, text, i) ==
    IF i > Len(text) THEN {}
    ELSE IF MatchEnd(kind, text, i) = 0 THEN ScanMatches(kind, text, i + 1)
    ELSE {SubSeq(text, i, MatchEnd(kind, text, i))}
            \cup ScanMatches(kind, text, MatchEnd(kind, text, i) + 1)

\* C28: with allow_osc set every OSC sequence of the input is in the
\* normalized text unchanged, with supports_dec_private set every DEC-private
\* sequence is, whatever the other capability; a capability that is set
\* produces no warning of its kind.
C28_IndependentRewrites ==
    NormalizeDone =>
       LET caps == app.arg.capabilities
           text == Decode(app.arg.chunk)
       IN  /\ caps.allow_osc =>
                 /\ \A s \in ScanMatches("osc-suppressed", text, 1) :
                       Contains(app.out.text, s)
                 /\ KindCount(app.out.warnings, "osc-suppressed") = 0
           /\ caps.supports_dec_private =>
                 /\ \A s \in ScanMatches("dec-private", text, 1) :
                       Contains(app.out.text, s)
                 /\ KindCount(app.out.warnings, "dec-private") = 0

\* the offsets of the entries never decrease along the list
OffsetsOrdered(entries) ==
    \A i, j \in 1..Len(entries) : i <= j => entries[i].offset <= entries[j].offset

C29_State ==
    /\ OffsetsOrdered(parser.entries)
    /\ \A r \in Range(results) : OffsetsOrdered(r.warnings)

C29_Step ==
    (parse.pc = "loop" /\ Len(parser'.entries) > Len(parser.entries))
    => /\ \A i \in 1..Len(parser.entries) : parser'.entries[i] = parser.entries[i]
       /\ \A i \in (Len(parser.entries) + 1)..Len(parser'.entries) :
             /\ parser'.entries[i].offset = parse.pos
             /\ parser'.entries[i].offset < parse'.pos

\* C29: every warning entry carries the file position at which the chunk
\* holding its sequence starts, the total length of the chunks read before
\* it, which lies before the end of that chunk; the offsets never decrease
\* along the list, in the collector and in every result.
C29_WarningOffsets == []C29_State /\ [][C29_Step]_vars

C29_Witness ==
    /\ mode = "replay" /\ parse.pc = "loop"
    /\ parse.data = <<ESC, 93, BEL, ESC, 93, BEL>> /\ parse.chunk_size = 3
    /\ parser.entries = <<WarningEntry(0, ParseWarning("osc-suppressed", <<ESC, 93, BEL>>)),
                          WarningEntry(3, ParseWarning("osc-suppressed", <<ESC, 93, BEL>>))>>

\* the state is what _locate_state selects for the offset: the first state at
\* or after it, the last state when every state lies before it
Selected(states, off, state) ==
    \E i \in 1..Len(states) :
       /\ state = states[i]
       /\ \A j \in 1..(i - 1) : states[j].offset < off
       /\ states[i].offset >= off \/ i = Len(states)

\* C30: without states the mapping is empty whatever the keyframes; with
\* states its labels are exactly the labels of the keyframes, and each label
\* has the state selected for the last keyframe that carries it.
C30_MappingByLabel ==
    ExtractDone =>
       LET states == app.arg.states
           keyframes == app.arg.keyframes
       IN  /\ states = <<>> => DOMAIN app.out = {}
           /\ states # <<>> =>
                 /\ DOMAIN app.out = {keyframes[k].label : k \in 1..Len(keyframes)}
                 /\ \A k \in 1..Len(keyframes) :
                       LastOfLabel(keyframes, k) =>
                          Selected(states, keyframes[k].offset,
                                   app.out[keyframes[k].label])

C30_Witness ==
    /\ ExtractDone
    /\ app.arg.states = <<ScreenState(0, <<1>>), ScreenState(2, <<2>>)>>
    /\ app.arg.keyframes = <<[label |-> "m1", offset |-> 2], [label |-> "m1", offset |-> 0]>>
    /\ DOMAIN app.out = {"m1"} /\ app.out["m1"] = ScreenState(0, <<1>>)

\* C31: appending an empty chunk returns the offset the recorder has at that
\* moment, raises nothing, also on a closed recorder, and leaves offset and
\* file as they were; close raises nothing and leaves the file closed, and a
\* close of a recorder already closed changes nothing of the recorder
C31_Step ==
    \A t \in Threads :
        /\ (call[t].pc = "idle" /\ call'[t].op = "append" /\ call'[t].chunk = <<>>)
              => /\ call'[t].pc = "ret" /\ ~call'[t].raised
                 /\ call'[t].ret = offset
                 /\ UNCHANGED <<file, offset, rlock, closed, log>>
        /\ (call[t].op = "append" /\ call[t].chunk = <<>> /\ call'[t] # call[t])
              => /\ call[t].pc = "ret" /\ call'[t] = IdleCall
                 /\ UNCHANGED <<file, offset, rlock, closed, log>>
        /\ (call[t].pc = "idle" /\ call'[t].op = "close")
              => /\ call'[t].pc = "ret" /\ ~call'[t].raised
                 /\ closed'
                 /\ closed => UNCHANGED <<file, offset, rlock, closed, log>>
                 /\ UNCHANGED <<file, offset, log>>

C31_EmptyAppendAndClose == [][C31_Step]_vars

\* a second close has returned, and an empty append on the closed recorder
\* has returned the offset 1
C31_Witness ==
    /\ mode = "rec" /\ closed /\ file = <<97>> /\ offset = 1
    /\ call["driver"].op = "close" /\ call["driver"].pc = "ret" /\ call["driver"].quiet
    /\ call["pump"].op = "append" /\ call["pump"].pc = "ret"
    /\ call["pump"].chunk = <<>> /\ call["pump"].ret = 1 /\ ~call["pump"].raised

\* the labels of the keyframes a complete execution of the steps asks for: one
\* per MarkStep and one per InputStep whose mark is present, in step order
MarkedLabels(steps) ==
    LET marking == SelectSeq(steps, LAMBDA s :
                       s.kind = "mark" \/ (s.kind = "input" /\ s.mark.p))
    IN  [i \in 1..Len(marking) |->
            IF marking[i].kind = "mark" THEN marking[i].label ELSE marking[i].mark.v]

LabelsOf(frames) == [i \in 1..Len(frames) |-> frames[i].label]

\* C32: when run has returned, the keyframes of the SessionArtifacts are the
\* frames the final flush wrote to keyframes.json, their labels are those of
\* the MarkSteps and of the InputSteps with a mark, in step order, and their
\* offsets do not decrease.
C32_ArtifactKeyframes ==
    dpc = "returned" =>
        /\ artifacts.p /\ json.written
        /\ artifacts.keyframes = json.frames
        /\ LabelsOf(artifacts.keyframes) = MarkedLabels(script)
        /\ \A i \in 1..Len(artifacts.keyframes) - 1 :
              artifacts.keyframes[i].offset <= artifacts.keyframes[i + 1].offset

\* C33: when an input step goes on from its write to the mark, to the expect
\* or to the next step, the master has received every byte of the step's
\* encoded payload.
C33_Step ==
    (/\ mode = "run" /\ dpc = "step" /\ CurStep.kind = "input"
     /\ <<dpc, stepIdx>>' # <<dpc, stepIdx>>
     /\ exc' = None)
        => ptyIn' = ptyIn \o InputBytes(CurStep)

C33_WholePayloadWritten == [][C33_Step]_vars

\* C34: when __enter__ has raised after the pair was allocated, no fd of the
\* session is left open: master and slave are closed and the master is no
\* longer registered.
C34_NoFdAfterFailedOpen ==
    (mode = "api" /\ api.runner = "failed") => (~master_fd /\ ~api.slave_fd)

\* C35: a resize that returns has applied its size to the master and stored
\* it; a resize that raises leaves the stored size as it was.
C35_Step ==
    (mode = "api" /\ api'.op = "resize" /\ ops' # ops)
        => IF api'.error = None
           THEN size' = api'.arg /\ winsize' = api'.arg
           ELSE size' = size

C35_ResizeStoresOnSuccess == [][C35_Step]_vars
====
